---- MODULE Spec2Model ----
(***************************************************************************)
(* A model of the maze engine: Direction / Position / Walls / Cell value  *)
(* layer, the Maze grid with its wall mutations, the recursive-backtracking*)
(* generator (iterative, stack based) and the two solvers (DFS and BFS).   *)
(* Source of reference: src/unnamed/part_012 lines 1-534 (Maze.ts),        *)
(* src/src/classes/Cell.ts, src/src/types/Direction.ts,                    *)
(* src/dist/types/Position.js, src/unnamed/part_009 (Walls.ts),            *)
(* src/dist/pathAnalysis.js and src/src/index.ts.                          *)
(***************************************************************************)
EXTENDS Integers, Sequences, FiniteSets, TLC

VARIABLES
    width,       \* Maze._width
    height,      \* Maze._height
    grid,        \* Maze._grid: slot (x,y) -> the Cell stored there
    pc,          \* "idle", "generating" inside generateRecursiveBacktracking's loop,
                 \* or "solvingBFS" inside solveBFS's loop
    stack,       \* generateRecursiveBacktracking's local stack (cell slots)
    pushCount,   \* history: pushes of each cell during the current/last generation
    popCount,    \* history: pops of each cell during the current/last generation
    fresh,       \* history: TRUE when the walls are exactly what the last generation produced
    op,          \* the operation that completed last
    err,         \* the error the last operation raised, "none" when it returned
    args,        \* the arguments of the last call
    ret,         \* what the last query returned, "none" after any other call
    dfsResult,   \* what the last solveDFS returned
    bfsResult,   \* what the last solveBFS returned
    dfsVisited,  \* history: cells with visited = true when the last solveDFS returned
    bfsVisited,  \* history: cells with visited = true when the last solveBFS returned
    calls,       \* history: number of public calls made on this Maze
    bfsQueue,    \* solveBFS's local queue, each entry an index into bfsNodes
    bfsNodes,    \* the QueueNodes solveBFS made, in the order it made them
    held         \* the Cell a caller keeps from a getCell: the slot it came from,
                 \* whether the grid still holds that object (live), and the
                 \* object itself once the grid holds another one in its place

vars == <<width, height, grid, pc, stack, pushCount, popCount, fresh, op, err,
          args, ret, dfsResult, bfsResult, dfsVisited, bfsVisited, calls,
          bfsQueue, bfsNodes, held>>

(***************************************************************************)
(* Bounds of the model.                                                    *)
(***************************************************************************)
\* generation: grids with width * height <= MaxGenCells
MaxGenCells == 6
\* solving on arbitrary walls: grids with width * height <= MaxSolveCells,
\* at most MaxOneSided borders open on one face only
MaxSolveCells == 6
MaxOneSided == 1
\* solving a maze as constructed: width and height up to MaxFreshSide
MaxFreshSide == 3
\* a maze with one cell replaced, queried or solved: sides up to MaxEditSide
MaxEditSide == 3
\* solveBFS one loop iteration at a time: grids with width * height <= MaxBfsCells
MaxBfsCells == 4
\* a cell kept across a reset: grids with width * height <= MaxStaleCells
MaxStaleCells == 4

\* the public interface: grids with width * height <= MaxCells, at most MaxCalls calls
MaxCells == 4
MaxCalls == 2

(***************************************************************************)
(* Direction                                                               *)
(***************************************************************************)
Up == "up"
Down == "down"
Left == "left"
Right == "right"

Direction == {Up, Down, Left, Right}

ALL_DIRECTIONS == <<Up, Down, Left, Right>>

getDirectionOffset(direction) ==
    CASE direction = Up    -> [x |-> 0, y |-> -1]
      [] direction = Down  -> [x |-> 0, y |-> 1]
      [] direction = Left  -> [x |-> -1, y |-> 0]
      [] direction = Right -> [x |-> 1, y |-> 0]

(***************************************************************************)
(* Position                                                                *)
(***************************************************************************)
createPosition(x, y) == [x |-> x, y |-> y]

movePosition(pos, direction, distance) ==
    LET offset == getDirectionOffset(direction)
    IN  [x |-> pos.x + offset.x * distance, y |-> pos.y + offset.y * distance]

Abs(n) == IF n < 0 THEN -n ELSE n

(***************************************************************************)
(* Walls                                                                   *)
(***************************************************************************)
createClosedWalls == [d \in Direction |-> TRUE]

createOpenWalls == [d \in Direction |-> FALSE]

hasWall(walls, direction) == walls[direction]

\* mutant of removeWall: the flag is flipped instead of cleared
removeWall_Toggle(walls, direction) == [walls EXCEPT ![direction] = ~@]

removeWall(walls, direction) == [walls EXCEPT ![direction] = FALSE]

addWall(walls, direction) == [walls EXCEPT ![direction] = TRUE]

\* Object.entries(walls) lists the keys of the walls object in insertion
\* order.  createClosedWalls and createOpenWalls insert up, down, left, right,
\* and the spread in removeWall/addWall keeps the order of the object it
\* copies; Array.prototype.filter is SelectSeq.
WallEntries == ALL_DIRECTIONS

(***************************************************************************)
(* Cell                                                                    *)
(***************************************************************************)
\* new Cell(x, y, walls) with a walls object the caller wrote as a literal:
\* the cell keeps that object, so its flags (walls) and the order of its keys
\* (keys), which Object.entries follows
NewCellKeyed(x, y, walls, keys) ==
    [position |-> createPosition(x, y), walls |-> walls, keys |-> keys,
     visited |-> FALSE]

\* new Cell(x, y, walls) with walls from createClosedWalls/createOpenWalls,
\* or copied from such walls by removeWall/addWall
NewCell(x, y, walls) == NewCellKeyed(x, y, walls, WallEntries)

\* mutant of new Cell(x, y): the default walls are the open ones
ClosedCell_OpenByDefault(x, y) == NewCell(x, y, createOpenWalls)

\* new Cell(x, y)
ClosedCell(x, y) == NewCell(x, y, createClosedWalls)

\* Cell.createOpen(x, y)
OpenCell(x, y) == NewCell(x, y, createOpenWalls)

hasWallInDirection(cell, direction) == hasWall(cell.walls, direction)

isOpenInDirection(cell, direction) == ~hasWallInDirection(cell, direction)

getWalledDirections(cell) == SelectSeq(cell.keys, LAMBDA d : cell.walls[d])

\* mutant of getOpenDirections: the filter keeps the walled directions
getOpenDirections_Walled(cell) == getWalledDirections(cell)

getOpenDirections(cell) == SelectSeq(cell.keys, LAMBDA d : ~cell.walls[d])

\* mutant of removeWallMutable: the new walls are not assigned to the cell
removeWallMutable_NotAssigned(cell, direction) == cell

removeWallMutable(cell, direction) ==
    [cell EXCEPT !.walls = removeWall(cell.walls, direction)]

addWallMutable(cell, direction) ==
    [cell EXCEPT !.walls = addWall(cell.walls, direction)]

\* mutant of getNeighborPosition: the position two steps away
getNeighborPosition_TwoSteps(cell, direction) == movePosition(cell.position, direction, 2)

getNeighborPosition(cell, direction) == movePosition(cell.position, direction, 1)

manhattanDistanceTo(cell, otherPos) ==
    Abs(cell.position.x - otherPos.x) + Abs(cell.position.y - otherPos.y)

isAdjacentTo(cell, other) == manhattanDistanceTo(cell, other.position) = 1

\* mutant of Cell.reset: the walls are put back as well
CellReset_Walls(cell) == [cell EXCEPT !.visited = FALSE, !.walls = createClosedWalls]

\* Cell.reset
CellReset(cell) == [cell EXCEPT !.visited = FALSE]

getWallCount(cell) == Len(getWalledDirections(cell))

(***************************************************************************)
(* Maze: grid queries.  A cell reference held by the maze is the slot it   *)
(* is stored in; the cell's own coordinates are its position field.        *)
(***************************************************************************)
Slots(w, h) == {createPosition(x, y) : x \in 0..(w - 1), y \in 0..(h - 1)}

\* the order of getAllCells / forEachCell: rows top to bottom, each left to right
RECURSIVE RowSlots(_, _, _)
RowSlots(w, y, x) ==
    IF x >= w THEN <<>> ELSE <<createPosition(x, y)>> \o RowSlots(w, y, x + 1)

RECURSIVE AllSlotsFrom(_, _, _)
AllSlotsFrom(w, h, y) ==
    IF y >= h THEN <<>> ELSE RowSlots(w, y, 0) \o AllSlotsFrom(w, h, y + 1)

getAllCells(w, h) == AllSlotsFrom(w, h, 0)

\* createGrid
createGrid(w, h, withWalls) ==
    [p \in Slots(w, h) |-> IF withWalls THEN ClosedCell(p.x, p.y) ELSE OpenCell(p.x, p.y)]

totalCells == width * height

isValidPosition(x, y) == x >= 0 /\ x < width /\ y >= 0 /\ y < height

isValidPositionObject(pos) == isValidPosition(pos.x, pos.y)

\* getCellSafe: the slot of the cell, or NoCell for undefined
NoCell == [x |-> -9, y |-> -9]

getCellSafe(x, y) == IF ~isValidPosition(x, y) THEN NoCell ELSE createPosition(x, y)

\* no cell is kept by the caller
NoHandle == [slot |-> NoCell, live |-> FALSE, reset |-> FALSE, cell |-> ClosedCell(0, 0)]

\* mutant of getCell: x < width is not tested
getCell_NoWidthTest(x, y) ==
    IF ~(x >= 0 /\ y >= 0 /\ y < height)
    THEN [cell |-> NoCell, err |-> "OutOfBounds"]
    ELSE [cell |-> createPosition(x, y), err |-> "none"]

\* getCell: the slot of the cell it returns, or the error it throws
getCell(x, y) ==
    IF ~isValidPosition(x, y)
    THEN [cell |-> NoCell, err |-> "OutOfBounds"]
    ELSE [cell |-> createPosition(x, y), err |-> "none"]

\* mutant of SetCell: the check of the cell's own position is missing
SetCell_NoPositionCheck(g, x, y, cell) ==
    IF ~isValidPosition(x, y) THEN [grid |-> g, err |-> "OutOfBounds"]
    ELSE [grid |-> [g EXCEPT ![createPosition(x, y)] = cell], err |-> "none"]

\* mutant of SetCell: the bounds check is missing
SetCell_NoBoundsCheck(g, x, y, cell) ==
    IF cell.position.x # x \/ cell.position.y # y
    THEN [grid |-> g, err |-> "PositionMismatch"]
    ELSE [grid |-> [g EXCEPT ![createPosition(x, y)] = cell], err |-> "none"]

\* setCell: the new grid and the error raised ("none" when it returns)
SetCell(g, x, y, cell) ==
    IF ~isValidPosition(x, y) THEN [grid |-> g, err |-> "OutOfBounds"]
    ELSE IF cell.position.x # x \/ cell.position.y # y
         THEN [grid |-> g, err |-> "PositionMismatch"]
         ELSE [grid |-> [g EXCEPT ![createPosition(x, y)] = cell], err |-> "none"]

\* the slot getCellSafe finds at the neighbour position of cell c in a direction
neighborCell(g, c, direction) ==
    LET neighborPos == getNeighborPosition(g[c], direction)
    IN  getCellSafe(neighborPos.x, neighborPos.y)

\* mutant of getNeighbors: the loop stops one direction short (Right is never tried)
getNeighbors_SkipsRight(g, c) ==
    LET found == [i \in 1..(Len(ALL_DIRECTIONS) - 1) |-> neighborCell(g, c, ALL_DIRECTIONS[i])]
    IN  SelectSeq(found, LAMBDA n : n # NoCell)

\* mutant of getNeighbors: Down is tried before Up
getNeighbors_DownFirst(g, c) ==
    LET order == <<Down, Up, Left, Right>>
        found == [i \in 1..Len(order) |-> neighborCell(g, c, order[i])]
    IN  SelectSeq(found, LAMBDA n : n # NoCell)

\* getNeighbors: slots of the in-grid neighbours, in ALL_DIRECTIONS order
getNeighbors(g, c) ==
    LET found == [i \in 1..Len(ALL_DIRECTIONS) |-> neighborCell(g, c, ALL_DIRECTIONS[i])]
    IN  SelectSeq(found, LAMBDA n : n # NoCell)

\* mutant of getAccessibleNeighbors: it iterates ALL_DIRECTIONS, walls ignored
getAccessibleNeighbors_IgnoresWalls(g, c) ==
    LET found == [i \in 1..Len(ALL_DIRECTIONS) |-> neighborCell(g, c, ALL_DIRECTIONS[i])]
    IN  SelectSeq(found, LAMBDA n : n # NoCell)

\* getAccessibleNeighbors: over the cell's own open directions
getAccessibleNeighbors(g, c) ==
    LET open == getOpenDirections(g[c])
        found == [i \in 1..Len(open) |-> neighborCell(g, c, open[i])]
    IN  SelectSeq(found, LAMBDA n : n # NoCell)

\* mutant of getUnvisitedNeighbors: the visited filter is missing
getUnvisitedNeighbors_NoFilter(g, c) == getNeighbors(g, c)

getUnvisitedNeighbors(g, c) == SelectSeq(getNeighbors(g, c), LAMBDA n : ~g[n].visited)

\* mutant of areNeighbors: a distance of at most 1, so a cell neighbours itself
areNeighbors_AtMostOne(cell1, cell2) == manhattanDistanceTo(cell1, cell2.position) <= 1

areNeighbors(cell1, cell2) == isAdjacentTo(cell1, cell2)

\* mutant of getDirectionBetween: the two vertical answers are exchanged
getDirectionBetween_VerticalSwapped(from, to) ==
    IF ~areNeighbors(from, to) THEN "NotNeighbors"
    ELSE LET dx == to.position.x - from.position.x
             dy == to.position.y - from.position.y
         IN  IF dx = 1 /\ dy = 0 THEN Right
             ELSE IF dx = -1 /\ dy = 0 THEN Left
             ELSE IF dx = 0 /\ dy = 1 THEN Up
             ELSE IF dx = 0 /\ dy = -1 THEN Down
             ELSE "InvalidDirection"

\* getDirectionBetween: the direction, or "NotNeighbors" when it throws
getDirectionBetween(from, to) ==
    IF ~areNeighbors(from, to) THEN "NotNeighbors"
    ELSE LET dx == to.position.x - from.position.x
             dy == to.position.y - from.position.y
         IN  IF dx = 1 /\ dy = 0 THEN Right
             ELSE IF dx = -1 /\ dy = 0 THEN Left
             ELSE IF dx = 0 /\ dy = 1 THEN Down
             ELSE IF dx = 0 /\ dy = -1 THEN Up
             ELSE "InvalidDirection"

\* mutant of removeWallBetween: only cell1's face is removed
removeWallBetween_OneFace(g, c1, c2) ==
    IF ~areNeighbors(g[c1], g[c2]) THEN [grid |-> g, err |-> "NotNeighbors"]
    ELSE LET direction1to2 == getDirectionBetween(g[c1], g[c2])
         IN  [grid |-> [g EXCEPT ![c1] = removeWallMutable(g[c1], direction1to2)],
              err |-> "none"]

\* removeWallBetween on two cells of the grid (given by their slots)
removeWallBetween(g, c1, c2) ==
    IF ~areNeighbors(g[c1], g[c2]) THEN [grid |-> g, err |-> "NotNeighbors"]
    ELSE LET direction1to2 == getDirectionBetween(g[c1], g[c2])
             direction2to1 == getDirectionBetween(g[c2], g[c1])
             g1 == [g EXCEPT ![c1] = removeWallMutable(g[c1], direction1to2)]
             g2 == [g1 EXCEPT ![c2] = removeWallMutable(g1[c2], direction2to1)]
         IN  [grid |-> g2, err |-> "none"]

\* mutant of addWallBetween: cell2 gets the wall on the side cell1 got it
addWallBetween_SameDirection(g, c1, c2) ==
    IF ~areNeighbors(g[c1], g[c2]) THEN [grid |-> g, err |-> "NotNeighbors"]
    ELSE LET direction1to2 == getDirectionBetween(g[c1], g[c2])
             g1 == [g EXCEPT ![c1] = addWallMutable(g[c1], direction1to2)]
             g2 == [g1 EXCEPT ![c2] = addWallMutable(g1[c2], direction1to2)]
         IN  [grid |-> g2, err |-> "none"]

\* addWallBetween on two cells of the grid
addWallBetween(g, c1, c2) ==
    IF ~areNeighbors(g[c1], g[c2]) THEN [grid |-> g, err |-> "NotNeighbors"]
    ELSE LET direction1to2 == getDirectionBetween(g[c1], g[c2])
             direction2to1 == getDirectionBetween(g[c2], g[c1])
             g1 == [g EXCEPT ![c1] = addWallMutable(g[c1], direction1to2)]
             g2 == [g1 EXCEPT ![c2] = addWallMutable(g1[c2], direction2to1)]
         IN  [grid |-> g2, err |-> "none"]

\* removeWallBetween on two Cell objects, in the grid or not: the two objects
\* as it leaves them
removeWallBetweenCells(cell1, cell2) ==
    IF ~areNeighbors(cell1, cell2) THEN [cell1 |-> cell1, cell2 |-> cell2, err |-> "NotNeighbors"]
    ELSE [cell1 |-> removeWallMutable(cell1, getDirectionBetween(cell1, cell2)),
          cell2 |-> removeWallMutable(cell2, getDirectionBetween(cell2, cell1)),
          err |-> "none"]

\* addWallBetween on two Cell objects, in the grid or not
addWallBetweenCells(cell1, cell2) ==
    IF ~areNeighbors(cell1, cell2) THEN [cell1 |-> cell1, cell2 |-> cell2, err |-> "NotNeighbors"]
    ELSE [cell1 |-> addWallMutable(cell1, getDirectionBetween(cell1, cell2)),
          cell2 |-> addWallMutable(cell2, getDirectionBetween(cell2, cell1)),
          err |-> "none"]

\* mutant of handleAfterReset: the reset clears the cells in place, so the
\* grid still holds the object the caller keeps
handleAfterReset_SameObject(h, g) == h

\* what a kept cell is once resetToFullyWalled has stored a new Cell in every
\* slot: the object as it was, no longer in the grid
handleAfterReset(h, g) ==
    IF h.live THEN [h EXCEPT !.live = FALSE, !.cell = g[h.slot]] ELSE h

\* mutant of hasPassageBetween: it looks at cell2's wall facing cell1
hasPassageBetween_OtherFace(g, c1, c2) ==
    IF ~areNeighbors(g[c1], g[c2]) THEN FALSE
    ELSE isOpenInDirection(g[c2], getDirectionBetween(g[c2], g[c1]))

hasPassageBetween(g, c1, c2) ==
    IF ~areNeighbors(g[c1], g[c2]) THEN FALSE
    ELSE isOpenInDirection(g[c1], getDirectionBetween(g[c1], g[c2]))

\* getCellAt: getCell at the coordinates of a position
getCellAt(pos) == getCell(pos.x, pos.y)

arePositionsAdjacent(pos1, pos2) ==
    LET dx == Abs(pos1.x - pos2.x)
        dy == Abs(pos1.y - pos2.y)
    IN  (dx = 1 /\ dy = 0) \/ (dx = 0 /\ dy = 1)

\* canMoveBetween: the boolean it returns and the error it raises
canMoveBetween(g, from, to) ==
    IF ~arePositionsAdjacent(from, to) THEN [ret |-> FALSE, err |-> "none"]
    ELSE LET fromCell == getCellAt(from)
             toCell == getCellAt(to)
         IN  IF fromCell.err # "none" THEN [ret |-> FALSE, err |-> fromCell.err]
             ELSE IF toCell.err # "none" THEN [ret |-> FALSE, err |-> toCell.err]
             ELSE [ret |-> /\ areNeighbors(g[fromCell.cell], g[toCell.cell])
                           /\ ~hasWallInDirection(g[fromCell.cell],
                                   getDirectionBetween(g[fromCell.cell], g[toCell.cell])),
                   err |-> "none"]

\* resetVisited
resetVisited(g) == [p \in DOMAIN g |-> CellReset(g[p])]

\* mutant of resetToFullyWalled: the new cells are made but never stored
resetToFullyWalled_NotStored(g) == g

\* resetToFullyWalled: forEachCell(setCell(x, y, new Cell(x, y)))
resetToFullyWalled(g) ==
    LET order == getAllCells(width, height)
        RECURSIVE each(_, _)
        each(gg, i) ==
            IF i > Len(order) THEN gg
            ELSE each(SetCell(gg, order[i].x, order[i].y,
                              ClosedCell(order[i].x, order[i].y)).grid, i + 1)
    IN  each(g, 1)

\* mutant of getStatistics: removedWalls counts the cells that lost a wall
getStatistics_CellsNotWalls(g) ==
    LET order == getAllCells(width, height)
        RECURSIVE scan(_, _)
        scan(i, acc) ==
            IF i > Len(order) THEN acc
            ELSE LET cell == g[order[i]]
                     wallCount == getWallCount(cell)
                 IN  scan(i + 1,
                          [visitedCount |-> acc.visitedCount + (IF cell.visited THEN 1 ELSE 0),
                           totalWalls |-> acc.totalWalls + wallCount,
                           removedWalls |-> acc.removedWalls + (IF wallCount < 4 THEN 1 ELSE 0)])
        sums == scan(1, [visitedCount |-> 0, totalWalls |-> 0, removedWalls |-> 0])
    IN  [totalCells |-> totalCells,
         visitedCells |-> sums.visitedCount,
         unvisitedCells |-> totalCells - sums.visitedCount,
         totalWalls |-> sums.totalWalls,
         removedWalls |-> sums.removedWalls,
         connectivityNum |-> sums.removedWalls,
         connectivityDen |-> totalCells * 4]

\* getStatistics
getStatistics(g) ==
    LET order == getAllCells(width, height)
        RECURSIVE scan(_, _)
        scan(i, acc) ==
            IF i > Len(order) THEN acc
            ELSE LET cell == g[order[i]]
                     wallCount == getWallCount(cell)
                 IN  scan(i + 1,
                          [visitedCount |-> acc.visitedCount + (IF cell.visited THEN 1 ELSE 0),
                           totalWalls |-> acc.totalWalls + wallCount,
                           removedWalls |-> acc.removedWalls + (4 - wallCount)])
        sums == scan(1, [visitedCount |-> 0, totalWalls |-> 0, removedWalls |-> 0])
    IN  [totalCells |-> totalCells,
         visitedCells |-> sums.visitedCount,
         unvisitedCells |-> totalCells - sums.visitedCount,
         totalWalls |-> sums.totalWalls,
         removedWalls |-> sums.removedWalls,
         \* connectivity = removedWalls / (totalCells * 4), kept as a fraction
         connectivityNum |-> sums.removedWalls,
         connectivityDen |-> totalCells * 4]


(***************************************************************************)
(* Maze: solvers.  A solver's outcome is a record: kind "path" with the    *)
(* positions, kind "null" for no path, kind "error" when it throws.        *)
(***************************************************************************)
NullResult == [kind |-> "null", path |-> <<>>]

PathResult(path) == [kind |-> "path", path |-> path]

ErrorResult == [kind |-> "error", path |-> <<>>]

NoResult == [kind |-> "none", path |-> <<>>]

VisitedSet(g) == {p \in DOMAIN g : g[p].visited}

\* dfsRecursive, with the loop over the accessible neighbours as dfsNeighbors:
\* each returns found, the path array and the grid (the visited flags) it leaves
RECURSIVE dfsRecursive(_, _, _, _)
RECURSIVE dfsNeighbors(_, _, _, _, _)
\* mutant of dfsRecursive: path.push(current) comes after the target test
dfsRecursive_PushAfterTest(g, current, target, path) ==
    LET path1 == Append(path, current)
        g1 == [g EXCEPT ![current].visited = TRUE]
    IN  IF current.x = target.x /\ current.y = target.y
        THEN [found |-> TRUE, path |-> path, grid |-> g1]
        ELSE LET r == dfsNeighbors(g1, getAccessibleNeighbors(g1, current), 1, target, path1)
             IN  IF r.found THEN r
                 ELSE [found |-> FALSE, path |-> SubSeq(r.path, 1, Len(r.path) - 1),
                       grid |-> r.grid]

\* mutant of dfsRecursive: current.visited = true comes after the target test
dfsRecursive_MarkAfterTest(g, current, target, path) ==
    LET path1 == Append(path, current)
        g1 == [g EXCEPT ![current].visited = TRUE]
    IN  IF current.x = target.x /\ current.y = target.y
        THEN [found |-> TRUE, path |-> path1, grid |-> g]
        ELSE LET r == dfsNeighbors(g1, getAccessibleNeighbors(g1, current), 1, target, path1)
             IN  IF r.found THEN r
                 ELSE [found |-> FALSE, path |-> SubSeq(r.path, 1, Len(r.path) - 1),
                       grid |-> r.grid]

dfsRecursive(g, current, target, path) ==
    LET path1 == Append(path, current)
        g1 == [g EXCEPT ![current].visited = TRUE]
    IN  IF current.x = target.x /\ current.y = target.y
        THEN [found |-> TRUE, path |-> path1, grid |-> g1]
        ELSE LET r == dfsNeighbors(g1, getAccessibleNeighbors(g1, current), 1, target, path1)
             IN  IF r.found THEN r
                 ELSE [found |-> FALSE, path |-> SubSeq(r.path, 1, Len(r.path) - 1),
                       grid |-> r.grid]

\* mutant of dfsNeighbors: the first unvisited neighbour's search is returned
\* whatever it found, so the later neighbours are never tried
RECURSIVE dfsNeighbors_FirstOnly(_, _, _, _, _)
dfsNeighbors_FirstOnly(g, accessibleNeighbors, i, target, path) ==
    IF i > Len(accessibleNeighbors) THEN [found |-> FALSE, path |-> path, grid |-> g]
    ELSE LET neighbor == accessibleNeighbors[i]
         IN  IF ~g[neighbor].visited
             THEN dfsRecursive(g, g[neighbor].position, target, path)
             ELSE dfsNeighbors_FirstOnly(g, accessibleNeighbors, i + 1, target, path)

dfsNeighbors(g, accessibleNeighbors, i, target, path) ==
    IF i > Len(accessibleNeighbors) THEN [found |-> FALSE, path |-> path, grid |-> g]
    ELSE LET neighbor == accessibleNeighbors[i]
         IN  IF ~g[neighbor].visited
             THEN LET r == dfsRecursive(g, g[neighbor].position, target, path)
                  IN  IF r.found THEN r
                      ELSE dfsNeighbors(r.grid, accessibleNeighbors, i + 1, target, r.path)
             ELSE dfsNeighbors(g, accessibleNeighbors, i + 1, target, path)

\* mutant of solveDFS: resetVisited runs before the positions are validated
solveDFS_ResetFirst(g, start, end) ==
    IF ~isValidPositionObject(start) \/ ~isValidPositionObject(end)
    THEN [result |-> ErrorResult, grid |-> resetVisited(g), err |-> "InvalidPosition"]
    ELSE LET r == dfsRecursive(resetVisited(g), start, end, <<>>)
         IN  [result |-> IF r.found THEN PathResult(r.path) ELSE NullResult,
              grid |-> r.grid, err |-> "none"]

\* solveDFS: the result, the grid it leaves and the error it raises
solveDFS(g, start, end) ==
    IF ~isValidPositionObject(start) \/ ~isValidPositionObject(end)
    THEN [result |-> ErrorResult, grid |-> g, err |-> "InvalidPosition"]
    ELSE LET r == dfsRecursive(resetVisited(g), start, end, <<>>)
         IN  [result |-> IF r.found THEN PathResult(r.path) ELSE NullResult,
              grid |-> r.grid, err |-> "none"]

\* mutant of reconstructPath: path.push instead of path.unshift
RECURSIVE reconstructPath_Push(_, _, _)
reconstructPath_Push(nodes, current, path) ==
    IF current = 0 THEN path
    ELSE reconstructPath_Push(nodes, nodes[current].parent,
                              Append(path, nodes[current].position))

\* mutant of reconstructPath: the loop ends at the node without a parent
\* (while (current.parent !== null)), so the start is left out
RECURSIVE reconstructPath_DropsStart(_, _, _)
reconstructPath_DropsStart(nodes, current, path) ==
    IF nodes[current].parent = 0 THEN path
    ELSE reconstructPath_DropsStart(nodes, nodes[current].parent,
                                    <<nodes[current].position>> \o path)

\* reconstructPath: nodes is the list of QueueNodes made so far, a node's parent
\* an index into it (0 for null)
RECURSIVE reconstructPath(_, _, _)
reconstructPath(nodes, current, path) ==
    IF current = 0 THEN path
    ELSE reconstructPath(nodes, nodes[current].parent, <<nodes[current].position>> \o path)

\* the for loop of solveBFS over the accessible neighbours of the dequeued node
RECURSIVE bfsNeighbors(_, _, _, _, _, _)
\* mutant of bfsNeighbors: the dequeued cell is marked where the neighbour should be
bfsNeighbors_MarksCurrent(g, nodes, queue, accessibleNeighbors, i, currentNode) ==
    IF i > Len(accessibleNeighbors) THEN [grid |-> g, nodes |-> nodes, queue |-> queue]
    ELSE LET neighbor == accessibleNeighbors[i]
         IN  IF ~g[neighbor].visited
             THEN bfsNeighbors([g EXCEPT ![nodes[currentNode].position].visited = TRUE],
                               Append(nodes, [position |-> g[neighbor].position,
                                              parent |-> currentNode]),
                               Append(queue, Len(nodes) + 1),
                               accessibleNeighbors, i + 1, currentNode)
             ELSE bfsNeighbors(g, nodes, queue, accessibleNeighbors, i + 1, currentNode)

bfsNeighbors(g, nodes, queue, accessibleNeighbors, i, currentNode) ==
    IF i > Len(accessibleNeighbors) THEN [grid |-> g, nodes |-> nodes, queue |-> queue]
    ELSE LET neighbor == accessibleNeighbors[i]
         IN  IF ~g[neighbor].visited
             THEN bfsNeighbors([g EXCEPT ![neighbor].visited = TRUE],
                               Append(nodes, [position |-> g[neighbor].position,
                                              parent |-> currentNode]),
                               Append(queue, Len(nodes) + 1),
                               accessibleNeighbors, i + 1, currentNode)
             ELSE bfsNeighbors(g, nodes, queue, accessibleNeighbors, i + 1, currentNode)

\* the while loop of solveBFS; queue holds indices into nodes
RECURSIVE bfsLoop(_, _, _, _)
\* mutant of bfsLoop: queue.pop instead of queue.shift (the newest node first)
RECURSIVE bfsLoop_Pop(_, _, _, _)
bfsLoop_Pop(g, nodes, queue, end) ==
    IF queue = <<>> THEN [result |-> NullResult, grid |-> g]
    ELSE LET currentNode == queue[Len(queue)]
             current == nodes[currentNode].position
         IN  IF current.x = end.x /\ current.y = end.y
             THEN [result |-> PathResult(reconstructPath(nodes, currentNode, <<>>)),
                   grid |-> g]
             ELSE LET r == bfsNeighbors(g, nodes, SubSeq(queue, 1, Len(queue) - 1),
                                        getAccessibleNeighbors(g, current), 1, currentNode)
                  IN  bfsLoop_Pop(r.grid, r.nodes, r.queue, end)

bfsLoop(g, nodes, queue, end) ==
    IF queue = <<>> THEN [result |-> NullResult, grid |-> g]
    ELSE LET currentNode == Head(queue)
             current == nodes[currentNode].position
         IN  IF current.x = end.x /\ current.y = end.y
             THEN [result |-> PathResult(reconstructPath(nodes, currentNode, <<>>)),
                   grid |-> g]
             ELSE LET r == bfsNeighbors(g, nodes, Tail(queue),
                                        getAccessibleNeighbors(g, current), 1, currentNode)
                  IN  bfsLoop(r.grid, r.nodes, r.queue, end)

\* mutant of solveBFS: this.resetVisited() is missing
solveBFS_NoReset(g, start, end) ==
    IF ~isValidPositionObject(start) \/ ~isValidPositionObject(end)
    THEN [result |-> ErrorResult, grid |-> g, err |-> "InvalidPosition"]
    ELSE LET startNode == [position |-> start, parent |-> 0]
             r == bfsLoop([g EXCEPT ![start].visited = TRUE], <<startNode>>, <<1>>, end)
         IN  [result |-> r.result, grid |-> r.grid, err |-> "none"]

\* mutant of solveBFS: the start cell is not marked visited when it is enqueued
solveBFS_StartNotMarked(g, start, end) ==
    IF ~isValidPositionObject(start) \/ ~isValidPositionObject(end)
    THEN [result |-> ErrorResult, grid |-> g, err |-> "InvalidPosition"]
    ELSE LET g0 == resetVisited(g)
             startNode == [position |-> start, parent |-> 0]
             r == bfsLoop(g0, <<startNode>>, <<1>>, end)
         IN  [result |-> r.result, grid |-> r.grid, err |-> "none"]

\* solveBFS: the result, the grid it leaves and the error it raises
solveBFS(g, start, end) ==
    IF ~isValidPositionObject(start) \/ ~isValidPositionObject(end)
    THEN [result |-> ErrorResult, grid |-> g, err |-> "InvalidPosition"]
    ELSE LET g0 == resetVisited(g)
             startNode == [position |-> start, parent |-> 0]
             r == bfsLoop([g0 EXCEPT ![start].visited = TRUE], <<startNode>>, <<1>>, end)
         IN  [result |-> r.result, grid |-> r.grid, err |-> "none"]

\* comparePaths of pathAnalysis.js
comparePaths(path1, path2) ==
    IF Len(path1) # Len(path2) THEN FALSE
    ELSE \A i \in 1..Len(path1) : ~(path1[i].x # path2[i].x \/ path1[i].y # path2[i].y)

(***************************************************************************)
(* Construction                                                            *)
(***************************************************************************)
\* new Maze(w, h, initializeWalls); Maze.createOpen(w, h) is initializeWalls = FALSE
Construct(w, h, initializeWalls) ==
    /\ width = w
    /\ height = h
    /\ grid = createGrid(w, h, initializeWalls)
    /\ pc = "idle"
    /\ stack = <<>>
    /\ pushCount = [p \in Slots(w, h) |-> 0]
    /\ popCount = [p \in Slots(w, h) |-> 0]
    /\ fresh = FALSE
    /\ op = "construct"
    /\ err = "none"
    /\ args = [start |-> NoCell, end |-> NoCell]
    /\ ret = "none"
    /\ dfsResult = NoResult
    /\ bfsResult = NoResult
    /\ dfsVisited = {}
    /\ bfsVisited = {}
    /\ calls = 0
    /\ bfsQueue = <<>>
    /\ bfsNodes = <<>>
    /\ held = NoHandle

\* mutant of GenerateBegin: getCell(startX, startY) comes before the two resets
GenerateBegin_ValidatesFirst(startX, startY) ==
    /\ pc = "idle"
    /\ LET g == resetVisited(resetToFullyWalled(grid))
           startCell == createPosition(startX, startY)
       IN  IF ~isValidPosition(startX, startY)
           THEN /\ grid' = grid
                /\ err' = "OutOfBounds"
                /\ op' = "generate"
                /\ UNCHANGED <<pc, stack, pushCount, popCount>>
           ELSE /\ grid' = [g EXCEPT ![startCell].visited = TRUE]
                /\ stack' = <<startCell>>
                /\ pushCount' = [p \in DOMAIN grid |-> IF p = startCell THEN 1 ELSE 0]
                /\ popCount' = [p \in DOMAIN grid |-> 0]
                /\ pc' = "generating"
                /\ err' = "none"
                /\ op' = "generateBegin"
    /\ fresh' = FALSE
    /\ dfsResult' = NoResult
    /\ bfsResult' = NoResult
    /\ dfsVisited' = {}
    /\ bfsVisited' = {}
    /\ args' = [x |-> startX, y |-> startY]
    /\ ret' = "none"
    /\ UNCHANGED <<width, height, bfsQueue, bfsNodes>>

(***************************************************************************)
(* generateRecursiveBacktracking, one action per loop iteration            *)
(***************************************************************************)
\* lines 221-226: reset, then getCell(startX, startY), mark and push it
GenerateBegin(startX, startY) ==
    /\ pc = "idle"
    /\ LET g == resetVisited(resetToFullyWalled(grid))
           startCell == createPosition(startX, startY)
       IN  IF ~isValidPosition(startX, startY)
           THEN /\ grid' = g
                /\ err' = "OutOfBounds"
                /\ op' = "generate"
                /\ UNCHANGED <<pc, stack, pushCount, popCount>>
           ELSE /\ grid' = [g EXCEPT ![startCell].visited = TRUE]
                /\ stack' = <<startCell>>
                /\ pushCount' = [p \in DOMAIN grid |-> IF p = startCell THEN 1 ELSE 0]
                /\ popCount' = [p \in DOMAIN grid |-> 0]
                /\ pc' = "generating"
                /\ err' = "none"
                /\ op' = "generateBegin"
    /\ fresh' = FALSE
    /\ dfsResult' = NoResult
    /\ bfsResult' = NoResult
    /\ dfsVisited' = {}
    /\ bfsVisited' = {}
    /\ args' = [x |-> startX, y |-> startY]
    /\ ret' = "none"
    /\ UNCHANGED <<width, height, bfsQueue, bfsNodes>>

\* mutant of GenerateCarve: next.visited = true is missing
GenerateCarve_NextNotMarked(randomIndex) ==
    /\ pc = "generating"
    /\ stack # <<>>
    /\ LET current == stack[Len(stack)]
           unvisitedNeighbors == getUnvisitedNeighbors(grid, current)
       IN  /\ Len(unvisitedNeighbors) > 0
           /\ randomIndex \in 0..(Len(unvisitedNeighbors) - 1)
           /\ LET next == unvisitedNeighbors[randomIndex + 1]
                  r == removeWallBetween(grid, current, next)
              IN  IF r.err # "none"
                  THEN /\ err' = r.err
                       /\ pc' = "idle"
                       /\ op' = "generate"
                       /\ UNCHANGED <<grid, stack, pushCount>>
                  ELSE /\ grid' = r.grid
                       /\ stack' = Append(stack, next)
                       /\ pushCount' = [pushCount EXCEPT ![next] = @ + 1]
                       /\ UNCHANGED <<pc, op, err>>
    /\ UNCHANGED <<width, height, bfsQueue, bfsNodes, popCount, fresh, args, ret,
                   dfsResult, bfsResult, dfsVisited, bfsVisited>>

\* lines 228-237: the top cell has unvisited neighbours; Math.random picks one
GenerateCarve(randomIndex) ==
    /\ pc = "generating"
    /\ stack # <<>>
    /\ LET current == stack[Len(stack)]
           unvisitedNeighbors == getUnvisitedNeighbors(grid, current)
       IN  /\ Len(unvisitedNeighbors) > 0
           /\ randomIndex \in 0..(Len(unvisitedNeighbors) - 1)
           /\ LET next == unvisitedNeighbors[randomIndex + 1]
                  r == removeWallBetween(grid, current, next)
              IN  IF r.err # "none"
                  THEN /\ err' = r.err
                       /\ pc' = "idle"
                       /\ op' = "generate"
                       /\ UNCHANGED <<grid, stack, pushCount>>
                  ELSE /\ grid' = [r.grid EXCEPT ![next].visited = TRUE]
                       /\ stack' = Append(stack, next)
                       /\ pushCount' = [pushCount EXCEPT ![next] = @ + 1]
                       /\ UNCHANGED <<pc, op, err>>
    /\ UNCHANGED <<width, height, bfsQueue, bfsNodes, popCount, fresh, args, ret,
                   dfsResult, bfsResult, dfsVisited, bfsVisited>>

\* lines 238-240 and the loop test: no unvisited neighbour, pop; an empty stack ends the call
GenerateBacktrack ==
    /\ pc = "generating"
    /\ stack # <<>>
    /\ Len(getUnvisitedNeighbors(grid, stack[Len(stack)])) = 0
    /\ stack' = SubSeq(stack, 1, Len(stack) - 1)
    /\ popCount' = [popCount EXCEPT ![stack[Len(stack)]] = @ + 1]
    /\ IF Len(stack) = 1
       THEN /\ pc' = "idle"
            /\ op' = "generate"
            /\ fresh' = TRUE
       ELSE UNCHANGED <<pc, op, fresh>>
    /\ UNCHANGED <<width, height, bfsQueue, bfsNodes, grid, pushCount, err, args, ret,
                   dfsResult, bfsResult, dfsVisited, bfsVisited>>

(***************************************************************************)
(* analyzeMazeConnectivity's test of one pair on the generated maze:       *)
(* solveDFS then solveBFS on the same maze (pathAnalysis.js lines 26-39).  *)
(* A solver's result is bound with \E over a singleton: the call is made   *)
(* once and its result read several times.                                 *)
(***************************************************************************)
AnalyzePair(start, end) ==
    /\ pc = "idle"
    /\ fresh
    /\ isValidPositionObject(start)
    /\ isValidPositionObject(end)
    /\ \E d \in {solveDFS(grid, start, end)} :
       \E b \in {solveBFS(d.grid, start, end)} :
           /\ dfsResult' = d.result
           /\ dfsVisited' = VisitedSet(d.grid)
           /\ bfsResult' = b.result
           /\ bfsVisited' = VisitedSet(b.grid)
           /\ grid' = b.grid
           /\ err' = b.err
    /\ args' = [start |-> start, end |-> end]
    /\ ret' = "none"
    /\ op' = "analyzePair"
    /\ UNCHANGED <<width, height, bfsQueue, bfsNodes, pc, stack, pushCount, popCount, fresh>>

(***************************************************************************)
(* The other public operations, each a whole call                          *)
(***************************************************************************)
\* what every call other than a solve leaves of the last solve
ClearSolve ==
    /\ dfsResult' = NoResult
    /\ bfsResult' = NoResult
    /\ dfsVisited' = {}
    /\ bfsVisited' = {}

\* maze.setCell(x, y, cell) with a cell the caller constructed
SetCellOp(x, y, cell) ==
    /\ pc = "idle"
    /\ LET r == SetCell(grid, x, y, cell)
       IN  /\ grid' = r.grid
           /\ err' = r.err
           /\ fresh' = (fresh /\ r.err # "none")
    /\ op' = "setCell"
    /\ args' = [x |-> x, y |-> y, cell |-> cell]
    /\ ret' = "none"
    /\ ClearSolve
    /\ UNCHANGED <<width, height, bfsQueue, bfsNodes, pc, stack, pushCount, popCount>>

\* maze.removeWallBetween(maze.getCell(..), maze.getCell(..))
RemoveWallBetweenOp(c1, c2) ==
    /\ pc = "idle"
    /\ LET r == removeWallBetween(grid, c1, c2)
       IN  /\ grid' = r.grid
           /\ err' = r.err
           /\ fresh' = (fresh /\ r.grid = grid)
    /\ op' = "removeWallBetween"
    /\ args' = [start |-> c1, end |-> c2]
    /\ ret' = "none"
    /\ ClearSolve
    /\ UNCHANGED <<width, height, bfsQueue, bfsNodes, pc, stack, pushCount, popCount>>

\* maze.addWallBetween(maze.getCell(..), maze.getCell(..))
AddWallBetweenOp(c1, c2) ==
    /\ pc = "idle"
    /\ LET r == addWallBetween(grid, c1, c2)
       IN  /\ grid' = r.grid
           /\ err' = r.err
           /\ fresh' = (fresh /\ r.grid = grid)
    /\ op' = "addWallBetween"
    /\ args' = [start |-> c1, end |-> c2]
    /\ ret' = "none"
    /\ ClearSolve
    /\ UNCHANGED <<width, height, bfsQueue, bfsNodes, pc, stack, pushCount, popCount>>

\* maze.resetToFullyWalled()
ResetToFullyWalledOp ==
    /\ pc = "idle"
    /\ grid' = resetToFullyWalled(grid)
    /\ err' = "none"
    /\ fresh' = FALSE
    /\ op' = "resetToFullyWalled"
    /\ args' = [start |-> NoCell, end |-> NoCell]
    /\ ret' = "none"
    /\ ClearSolve
    /\ UNCHANGED <<width, height, bfsQueue, bfsNodes, pc, stack, pushCount, popCount>>

\* maze.resetVisited()
ResetVisitedOp ==
    /\ pc = "idle"
    /\ grid' = resetVisited(grid)
    /\ err' = "none"
    /\ op' = "resetVisited"
    /\ args' = [start |-> NoCell, end |-> NoCell]
    /\ ret' = "none"
    /\ ClearSolve
    /\ UNCHANGED <<width, height, bfsQueue, bfsNodes, pc, stack, pushCount, popCount, fresh>>

\* maze.getDirectionBetween(maze.getCell(..), maze.getCell(..)): a query, it
\* returns the direction or throws
GetDirectionBetweenOp(c1, c2) ==
    /\ pc = "idle"
    /\ LET direction == getDirectionBetween(grid[c1], grid[c2])
       IN  IF direction \in Direction
           THEN ret' = direction /\ err' = "none"
           ELSE ret' = "none" /\ err' = direction
    /\ op' = "getDirectionBetween"
    /\ args' = [start |-> c1, end |-> c2]
    /\ ClearSolve
    /\ UNCHANGED <<width, height, bfsQueue, bfsNodes, grid, pc, stack, pushCount, popCount, fresh>>

\* maze.getCell(x, y): a query, it returns the cell or throws
GetCellOp(x, y) ==
    /\ pc = "idle"
    /\ LET r == getCell(x, y)
       IN  /\ err' = r.err
           /\ ret' = IF r.err = "none" THEN r.cell ELSE "none"
    /\ op' = "getCell"
    /\ args' = [x |-> x, y |-> y]
    /\ ClearSolve
    /\ UNCHANGED <<width, height, bfsQueue, bfsNodes, grid, pc, stack, pushCount, popCount, fresh>>

\* maze.getCellSafe(x, y): the cell, or NoCell for undefined
GetCellSafeOp(x, y) ==
    /\ pc = "idle"
    /\ ret' = getCellSafe(x, y)
    /\ err' = "none"
    /\ op' = "getCellSafe"
    /\ args' = [x |-> x, y |-> y]
    /\ ClearSolve
    /\ UNCHANGED <<width, height, bfsQueue, bfsNodes, grid, pc, stack, pushCount, popCount, fresh>>

\* maze.getNeighbors(maze.getCell(..)): the array of cells
GetNeighborsOp(c) ==
    /\ pc = "idle"
    /\ ret' = getNeighbors(grid, c)
    /\ err' = "none"
    /\ op' = "getNeighbors"
    /\ args' = [cell |-> c]
    /\ ClearSolve
    /\ UNCHANGED <<width, height, bfsQueue, bfsNodes, grid, pc, stack, pushCount, popCount, fresh>>

\* maze.getAccessibleNeighbors(maze.getCell(..)): the array of cells
GetAccessibleNeighborsOp(c) ==
    /\ pc = "idle"
    /\ ret' = getAccessibleNeighbors(grid, c)
    /\ err' = "none"
    /\ op' = "getAccessibleNeighbors"
    /\ args' = [cell |-> c]
    /\ ClearSolve
    /\ UNCHANGED <<width, height, bfsQueue, bfsNodes, grid, pc, stack, pushCount, popCount, fresh>>

\* maze.hasPassageBetween(maze.getCell(..), maze.getCell(..))
HasPassageBetweenOp(c1, c2) ==
    /\ pc = "idle"
    /\ ret' = hasPassageBetween(grid, c1, c2)
    /\ err' = "none"
    /\ op' = "hasPassageBetween"
    /\ args' = [start |-> c1, end |-> c2]
    /\ ClearSolve
    /\ UNCHANGED <<width, height, bfsQueue, bfsNodes, grid, pc, stack, pushCount, popCount, fresh>>

\* maze.canMoveBetween(from, to): a query on two positions, it returns a
\* boolean or throws
CanMoveBetweenOp(from, to) ==
    /\ pc = "idle"
    /\ \E r \in {canMoveBetween(grid, from, to)} :
           /\ err' = r.err
           /\ ret' = IF r.err = "none" THEN r.ret ELSE "none"
    /\ op' = "canMoveBetween"
    /\ args' = [start |-> from, end |-> to]
    /\ ClearSolve
    /\ UNCHANGED <<width, height, bfsQueue, bfsNodes, grid, pc, stack, pushCount, popCount, fresh>>

\* maze.getStatistics()
GetStatisticsOp ==
    /\ pc = "idle"
    /\ ret' = getStatistics(grid)
    /\ err' = "none"
    /\ op' = "getStatistics"
    /\ args' = [start |-> NoCell, end |-> NoCell]
    /\ ClearSolve
    /\ UNCHANGED <<width, height, bfsQueue, bfsNodes, grid, pc, stack, pushCount, popCount, fresh>>

\* maze.solveDFS(start, end)
SolveDFSOp(start, end) ==
    /\ pc = "idle"
    /\ \E d \in {solveDFS(grid, start, end)} :
           /\ dfsResult' = d.result
           /\ dfsVisited' = IF d.err = "none" THEN VisitedSet(d.grid) ELSE {}
           /\ grid' = d.grid
           /\ err' = d.err
    /\ bfsResult' = NoResult
    /\ bfsVisited' = {}
    /\ args' = [start |-> start, end |-> end]
    /\ ret' = "none"
    /\ op' = "solveDFS"
    /\ UNCHANGED <<width, height, bfsQueue, bfsNodes, pc, stack, pushCount, popCount, fresh>>

\* maze.solveBFS(start, end)
SolveBFSOp(start, end) ==
    /\ pc = "idle"
    /\ \E b \in {solveBFS(grid, start, end)} :
           /\ bfsResult' = b.result
           /\ bfsVisited' = IF b.err = "none" THEN VisitedSet(b.grid) ELSE {}
           /\ grid' = b.grid
           /\ err' = b.err
    /\ dfsResult' = NoResult
    /\ dfsVisited' = {}
    /\ args' = [start |-> start, end |-> end]
    /\ ret' = "none"
    /\ op' = "solveBFS"
    /\ UNCHANGED <<width, height, bfsQueue, bfsNodes, pc, stack, pushCount, popCount, fresh>>

\* runSimpleMaze's comparison (index.ts lines 36-75): solveDFS, resetVisited, solveBFS
CompareSolvers(start, end) ==
    /\ pc = "idle"
    /\ isValidPositionObject(start)
    /\ isValidPositionObject(end)
    /\ \E d \in {solveDFS(grid, start, end)} :
       \E b \in {solveBFS(resetVisited(d.grid), start, end)} :
           /\ dfsResult' = d.result
           /\ dfsVisited' = VisitedSet(d.grid)
           /\ bfsResult' = b.result
           /\ bfsVisited' = VisitedSet(b.grid)
           /\ grid' = b.grid
           /\ err' = b.err
    /\ args' = [start |-> start, end |-> end]
    /\ ret' = "none"
    /\ op' = "compareSolvers"
    /\ UNCHANGED <<width, height, bfsQueue, bfsNodes, pc, stack, pushCount, popCount, fresh>>

(***************************************************************************)
(* Calls made with a Cell the caller kept                                  *)
(***************************************************************************)
\* const kept = maze.getCell(c.x, c.y)
KeepCell(c) ==
    /\ GetCellOp(c.x, c.y)
    /\ held' = [slot |-> c, live |-> TRUE, reset |-> FALSE, cell |-> grid[c]]

\* maze.resetToFullyWalled() while a cell is kept
ResetToFullyWalledKept ==
    /\ ResetToFullyWalledOp
    /\ held' = [handleAfterReset(held, grid) EXCEPT !.reset = TRUE]

\* maze.generateRecursiveBacktracking(startX, startY) while a cell is kept:
\* its first step is resetToFullyWalled
GenerateBeginKept(startX, startY) ==
    /\ GenerateBegin(startX, startY)
    /\ held' = [handleAfterReset(held, grid) EXCEPT !.reset = TRUE]

\* the object the caller kept: the grid's cell while the grid still holds it
KeptCell == IF held.live THEN grid[held.slot] ELSE held.cell

\* the grid once a call has left the kept object as kept and the cell of
\* slot c as other: the kept object is written to the grid only while the
\* grid holds it
GridAfterKept(c, kept, other) ==
    IF held.live /\ c # held.slot
    THEN [grid EXCEPT ![held.slot] = kept, ![c] = other]
    ELSE IF held.live THEN [grid EXCEPT ![c] = kept]
    ELSE [grid EXCEPT ![c] = other]

\* maze.removeWallBetween(kept, maze.getCell(..)) or, with keptFirst false,
\* maze.removeWallBetween(maze.getCell(..), kept)
RemoveWallBetweenKept(c, keptFirst) ==
    /\ pc = "idle"
    /\ held.slot # NoCell
    /\ \E r \in {IF keptFirst THEN removeWallBetweenCells(KeptCell, grid[c])
                   ELSE removeWallBetweenCells(grid[c], KeptCell)} :
         \E kept \in {IF keptFirst THEN r.cell1 ELSE r.cell2},
            other \in {IF keptFirst THEN r.cell2 ELSE r.cell1} :
           /\ grid' = GridAfterKept(c, kept, other)
           /\ fresh' = (fresh /\ GridAfterKept(c, kept, other) = grid)
           /\ held' = [held EXCEPT !.cell = kept]
           /\ err' = r.err
    /\ op' = "removeWallBetween"
    /\ args' = [kept |-> IF keptFirst THEN 1 ELSE 2, other |-> c]
    /\ ret' = "none"
    /\ ClearSolve
    /\ UNCHANGED <<width, height, bfsQueue, bfsNodes, pc, stack, pushCount, popCount>>

\* maze.addWallBetween with the kept cell as one argument
AddWallBetweenKept(c, keptFirst) ==
    /\ pc = "idle"
    /\ held.slot # NoCell
    /\ \E r \in {IF keptFirst THEN addWallBetweenCells(KeptCell, grid[c])
                   ELSE addWallBetweenCells(grid[c], KeptCell)} :
         \E kept \in {IF keptFirst THEN r.cell1 ELSE r.cell2},
            other \in {IF keptFirst THEN r.cell2 ELSE r.cell1} :
           /\ grid' = GridAfterKept(c, kept, other)
           /\ fresh' = (fresh /\ GridAfterKept(c, kept, other) = grid)
           /\ held' = [held EXCEPT !.cell = kept]
           /\ err' = r.err
    /\ op' = "addWallBetween"
    /\ args' = [kept |-> IF keptFirst THEN 1 ELSE 2, other |-> c]
    /\ ret' = "none"
    /\ ClearSolve
    /\ UNCHANGED <<width, height, bfsQueue, bfsNodes, pc, stack, pushCount, popCount>>

\* kept.visited = value
SetVisitedKept(value) ==
    /\ pc = "idle"
    /\ held.slot # NoCell
    /\ \E kept \in {[KeptCell EXCEPT !.visited = value]} :
           /\ grid' = IF held.live THEN [grid EXCEPT ![held.slot] = kept] ELSE grid
           /\ held' = [held EXCEPT !.cell = kept]
    /\ err' = "none"
    /\ op' = "visited"
    /\ args' = [kept |-> 1, other |-> NoCell]
    /\ ret' = "none"
    /\ ClearSolve
    /\ UNCHANGED <<width, height, bfsQueue, bfsNodes, pc, stack, pushCount, popCount, fresh>>

(***************************************************************************)
(* solveBFS, one action per iteration of its while loop                    *)
(***************************************************************************)
\* mutant of queueShift: queue.pop(), the newest node leaves first
queueShift_Pop(nodeQueue) ==
    [node |-> nodeQueue[Len(nodeQueue)], rest |-> SubSeq(nodeQueue, 1, Len(nodeQueue) - 1)]

\* line 297, queue.shift(): the node that leaves the queue and the queue left
queueShift(nodeQueue) == [node |-> Head(nodeQueue), rest |-> Tail(nodeQueue)]

\* lines 281-295: the positions are valid; reset, make the start node, push it
\* and mark the start cell
BfsBegin(start, end) ==
    /\ pc = "idle"
    /\ isValidPositionObject(start)
    /\ isValidPositionObject(end)
    /\ grid' = [resetVisited(grid) EXCEPT ![start].visited = TRUE]
    /\ bfsNodes' = <<[position |-> start, parent |-> 0]>>
    /\ bfsQueue' = <<1>>
    /\ pc' = "solvingBFS"
    /\ op' = "solveBFSBegin"
    /\ err' = "none"
    /\ args' = [start |-> start, end |-> end]
    /\ ret' = "none"
    /\ ClearSolve
    /\ UNCHANGED <<width, height, stack, pushCount, popCount, fresh>>

\* lines 297-313: the node shifted off the queue is not the end; its unvisited
\* accessible neighbours are marked and pushed
BfsExpand ==
    /\ pc = "solvingBFS"
    /\ bfsQueue # <<>>
    /\ LET currentNode == queueShift(bfsQueue).node
           current == bfsNodes[currentNode].position
       IN  /\ ~(current.x = args.end.x /\ current.y = args.end.y)
           /\ \E r \in {bfsNeighbors(grid, bfsNodes, queueShift(bfsQueue).rest,
                                      getAccessibleNeighbors(grid, current), 1, currentNode)} :
                  /\ grid' = r.grid
                  /\ bfsNodes' = r.nodes
                  /\ bfsQueue' = r.queue
    /\ UNCHANGED <<width, height, pc, stack, pushCount, popCount, fresh, op, err, args, ret,
                   dfsResult, bfsResult, dfsVisited, bfsVisited>>

\* lines 297-301: the node shifted off the queue is the end; the path is returned
BfsFound ==
    /\ pc = "solvingBFS"
    /\ bfsQueue # <<>>
    /\ LET currentNode == queueShift(bfsQueue).node
           current == bfsNodes[currentNode].position
       IN  /\ current.x = args.end.x /\ current.y = args.end.y
           /\ bfsResult' = PathResult(reconstructPath(bfsNodes, currentNode, <<>>))
    /\ bfsQueue' = queueShift(bfsQueue).rest
    /\ bfsVisited' = VisitedSet(grid)
    /\ pc' = "idle"
    /\ op' = "solveBFS"
    /\ UNCHANGED <<width, height, grid, bfsNodes, stack, pushCount, popCount, fresh, err,
                   args, ret, dfsResult, dfsVisited>>

\* lines 296 and 315: the queue is empty; null is returned
BfsExhausted ==
    /\ pc = "solvingBFS"
    /\ bfsQueue = <<>>
    /\ bfsResult' = NullResult
    /\ bfsVisited' = VisitedSet(grid)
    /\ pc' = "idle"
    /\ op' = "solveBFS"
    /\ UNCHANGED <<width, height, grid, bfsQueue, bfsNodes, stack, pushCount, popCount,
                   fresh, err, args, ret, dfsResult, dfsVisited>>

(***************************************************************************)
(* SpecGen: a maze of any size within the bound, constructed walled or     *)
(* open, is generated (again and again) and analysed.                      *)
(***************************************************************************)
GenDims == {d \in (1..MaxGenCells) \X (1..MaxGenCells) : d[1] * d[2] <= MaxGenCells}

InitGen == \E d \in GenDims, initializeWalls \in BOOLEAN : Construct(d[1], d[2], initializeWalls)

NextGen ==
    /\ \/ \E startX \in -1..width, startY \in -1..height : GenerateBegin(startX, startY)
       \/ \E randomIndex \in 0..3 : GenerateCarve(randomIndex)
       \/ GenerateBacktrack
       \/ \E start \in DOMAIN grid, end \in DOMAIN grid : AnalyzePair(start, end)
    /\ UNCHANGED <<calls, held>>

SpecGen == InitGen /\ [][NextGen]_vars

\* generateRecursiveBacktracking is one synchronous call: its loop keeps running
GenerateStep == (\E randomIndex \in 0..3 : GenerateCarve(randomIndex)) \/ GenerateBacktrack

SpecGenFair == SpecGen /\ WF_vars(GenerateStep /\ UNCHANGED <<calls, held>>)

(***************************************************************************)
(* SpecSolve: the solvers applied once to a maze with arbitrary walls      *)
(* between its cells (passages, walls, and up to MaxOneSided borders open  *)
(* on one face only) and its outer faces all closed or all open.           *)
(***************************************************************************)
SolveDims == {d \in (1..MaxSolveCells) \X (1..MaxSolveCells) : d[1] * d[2] <= MaxSolveCells}

\* the pairs of grid neighbours, each once: a cell with its right or lower neighbour
Borders(w, h) ==
    {b \in Slots(w, h) \X {Down, Right} : movePosition(b[1], b[2], 1) \in Slots(w, h)}

\* what a border can be: walled on both faces, open on both, or open on one face only
BorderKinds == {"closed", "open", "openFromFirst", "openFromSecond"}

OneSided(kinds) == {b \in DOMAIN kinds : kinds[b] \in {"openFromFirst", "openFromSecond"}}

\* the walls of the cell at p, given the kind of every border and the outer faces
WallsFrom(w, h, kinds, outer, p) ==
    [dir \in Direction |->
        LET q == movePosition(p, dir, 1)
        IN  IF q \notin Slots(w, h) THEN outer
            ELSE IF dir \in {Down, Right}
                 THEN kinds[<<p, dir>>] \in {"closed", "openFromSecond"}
                 ELSE kinds[<<q, IF dir = Up THEN Down ELSE Right>>]
                          \in {"closed", "openFromFirst"}]

InitSolve ==
    \E d \in SolveDims, outer \in BOOLEAN :
        \E kinds \in [Borders(d[1], d[2]) -> BorderKinds] :
            /\ Cardinality(OneSided(kinds)) <= MaxOneSided
            /\ width = d[1]
            /\ height = d[2]
            /\ grid = [p \in Slots(d[1], d[2]) |->
                         NewCell(p.x, p.y, WallsFrom(d[1], d[2], kinds, outer, p))]
            /\ pc = "idle"
            /\ stack = <<>>
            /\ pushCount = [p \in Slots(d[1], d[2]) |-> 0]
            /\ popCount = [p \in Slots(d[1], d[2]) |-> 0]
            /\ fresh = FALSE
            /\ op = "construct"
            /\ err = "none"
            /\ args = [start |-> NoCell, end |-> NoCell]
            /\ ret = "none"
            /\ dfsResult = NoResult
            /\ bfsResult = NoResult
            /\ dfsVisited = {}
            /\ bfsVisited = {}
            /\ calls = 0
            /\ bfsQueue = <<>>
            /\ bfsNodes = <<>>
            /\ held = NoHandle

NextSolve ==
    /\ op = "construct"
    /\ \E start \in DOMAIN grid, end \in DOMAIN grid : CompareSolvers(start, end)
    /\ UNCHANGED <<calls, held>>

SpecSolve == InitSolve /\ [][NextSolve]_vars

(***************************************************************************)
(* SpecFresh: a Maze just constructed, walled (new Maze(w, h)) or open     *)
(* (Maze.createOpen(w, h)), with sides up to MaxFreshSide, and solved once *)
(***************************************************************************)
InitFresh ==
    \E w \in 1..MaxFreshSide, h \in 1..MaxFreshSide, initializeWalls \in BOOLEAN :
        Construct(w, h, initializeWalls)

NextFresh ==
    /\ op = "construct"
    /\ \E start \in DOMAIN grid, end \in DOMAIN grid :
           \/ SolveDFSOp(start, end)
           \/ SolveBFSOp(start, end)
           \/ CompareSolvers(start, end)
    /\ UNCHANGED <<calls, held>>

SpecFresh == InitFresh /\ [][NextFresh]_vars

(***************************************************************************)
(* SpecEdit: a Maze constructed walled or open, with sides up to           *)
(* MaxEditSide; the caller may replace one cell by a cell it built, then   *)
(* it asks one query about cells, or solves the maze once, and may ask for *)
(* the statistics last.                                                    *)
(***************************************************************************)
QueryOps == {"getCell", "getCellSafe", "getNeighbors", "getAccessibleNeighbors",
             "getDirectionBetween", "hasPassageBetween", "getStatistics",
             "canMoveBetween"}

\* a walls literal written with its keys in another order
OtherKeyOrder == <<Right, Left, Down, Up>>

\* the cells a caller builds for slot (x, y): new Cell(x, y, walls) with any
\* flags on walls from createClosedWalls/removeWall, and an open cell whose
\* walls literal lists the keys in another order
BuiltCells(x, y) ==
    {NewCell(x, y, walls) : walls \in [Direction -> BOOLEAN]}
        \cup {NewCellKeyed(x, y, createOpenWalls, OtherKeyOrder)}

InitEdit ==
    \E w \in 1..MaxEditSide, h \in 1..MaxEditSide, initializeWalls \in BOOLEAN :
        Construct(w, h, initializeWalls)

\* the positions a caller hands to canMoveBetween: from anywhere in the grid
\* or one step outside it; to one step from it in a direction, two steps to
\* its right, or from itself
CallerMoves ==
    LET around == {createPosition(x, y) : x \in -1..width, y \in -1..height}
    IN  {<<from, to>> \in around \X around :
            \/ \E d \in Direction : to = movePosition(from, d, 1)
            \/ to = movePosition(from, Right, 2)
            \/ to = from}

CellQuery ==
    \/ \E x \in -1..width, y \in -1..height : GetCellOp(x, y)
    \/ \E x \in -1..width, y \in -1..height : GetCellSafeOp(x, y)
    \/ \E c \in DOMAIN grid : GetNeighborsOp(c)
    \/ \E c \in DOMAIN grid : GetAccessibleNeighborsOp(c)
    \/ \E c1 \in DOMAIN grid, c2 \in DOMAIN grid : GetDirectionBetweenOp(c1, c2)
    \/ \E c1 \in DOMAIN grid, c2 \in DOMAIN grid : HasPassageBetweenOp(c1, c2)
    \/ \E move \in CallerMoves : CanMoveBetweenOp(move[1], move[2])

NextEdit ==
    /\ \/ /\ op = "construct"
          /\ \E p \in DOMAIN grid :
                 \E cell \in BuiltCells(p.x, p.y) : SetCellOp(p.x, p.y, cell)
       \/ /\ op \in {"construct", "setCell"}
          /\ \E start \in DOMAIN grid, end \in DOMAIN grid : CompareSolvers(start, end)
       \/ /\ op \in {"construct", "setCell"}
          /\ CellQuery
       \/ /\ op \notin QueryOps
          /\ GetStatisticsOp
    /\ UNCHANGED <<calls, held>>

SpecEdit == InitEdit /\ [][NextEdit]_vars

(***************************************************************************)
(* SpecBFS: solveBFS run one loop iteration at a time, once, on a maze     *)
(* with arbitrary walls between its cells, as in SpecSolve.                *)
(***************************************************************************)
BfsDims == {d \in (1..MaxBfsCells) \X (1..MaxBfsCells) : d[1] * d[2] <= MaxBfsCells}

InitBFS ==
    \E d \in BfsDims, outer \in BOOLEAN :
        \E kinds \in [Borders(d[1], d[2]) -> BorderKinds] :
            /\ Cardinality(OneSided(kinds)) <= MaxOneSided
            /\ width = d[1]
            /\ height = d[2]
            /\ grid = [p \in Slots(d[1], d[2]) |->
                         NewCell(p.x, p.y, WallsFrom(d[1], d[2], kinds, outer, p))]
            /\ pc = "idle"
            /\ stack = <<>>
            /\ pushCount = [p \in Slots(d[1], d[2]) |-> 0]
            /\ popCount = [p \in Slots(d[1], d[2]) |-> 0]
            /\ fresh = FALSE
            /\ op = "construct"
            /\ err = "none"
            /\ args = [start |-> NoCell, end |-> NoCell]
            /\ ret = "none"
            /\ dfsResult = NoResult
            /\ bfsResult = NoResult
            /\ dfsVisited = {}
            /\ bfsVisited = {}
            /\ calls = 0
            /\ bfsQueue = <<>>
            /\ bfsNodes = <<>>
            /\ held = NoHandle

NextBFS ==
    /\ \/ op = "construct" /\ \E start \in DOMAIN grid, end \in DOMAIN grid : BfsBegin(start, end)
       \/ BfsExpand
       \/ BfsFound
       \/ BfsExhausted
    /\ UNCHANGED <<calls, held>>

SpecBFS == InitBFS /\ [][NextBFS]_vars

(***************************************************************************)
(* SpecStale: a caller keeps a cell of a constructed maze, the maze is     *)
(* reset or generated anew, and the kept cell is used in further calls.    *)
(***************************************************************************)
StaleDims == {d \in (1..MaxStaleCells) \X (1..MaxStaleCells) : d[1] * d[2] <= MaxStaleCells}

InitStale ==
    \E d \in StaleDims, initializeWalls \in BOOLEAN : Construct(d[1], d[2], initializeWalls)

KeptCall ==
    \/ \E c \in DOMAIN grid, keptFirst \in BOOLEAN : RemoveWallBetweenKept(c, keptFirst)
    \/ \E c \in DOMAIN grid, keptFirst \in BOOLEAN : AddWallBetweenKept(c, keptFirst)
    \/ \E value \in BOOLEAN : SetVisitedKept(value)

NextStale ==
    /\ \/ op = "construct" /\ \E c \in DOMAIN grid : KeepCell(c)
       \/ held.live /\ ResetToFullyWalledKept
       \/ held.live /\ \E startX \in -1..width, startY \in 0..(height - 1) :
                                 GenerateBeginKept(startX, startY)
       \/ GenerateStep /\ UNCHANGED held
       \/ KeptCall
    /\ UNCHANGED calls

SpecStale == InitStale /\ [][NextStale]_vars

(***************************************************************************)
(* Spec: a Maze constructed walled or open and used through its public     *)
(* interface.                                                              *)
(***************************************************************************)
Dims == {d \in (1..MaxCells) \X (1..MaxCells) : d[1] * d[2] <= MaxCells}

Init == \E d \in Dims, initializeWalls \in BOOLEAN : Construct(d[1], d[2], initializeWalls)

\* the cells a caller hands to setCell(x, y, ..): new Cell(x, y),
\* Cell.createOpen(x, y), and new Cell(0, 0), whose position is another slot's
CallerCells(x, y) == {ClosedCell(x, y), OpenCell(x, y), ClosedCell(0, 0)}

\* positions just outside the grid, one beyond each of three edges
Outside == {createPosition(-1, 0), createPosition(width, 0), createPosition(0, height)}

\* the start and end a caller hands to the solvers: any two cells of the grid,
\* or a position outside the grid as start, as end, or as both
CallerPairs ==
    ((DOMAIN grid) \X (DOMAIN grid))
        \cup {<<o, createPosition(0, 0)>> : o \in Outside}
        \cup {<<createPosition(0, 0), o>> : o \in Outside}
        \cup {<<o, o>> : o \in Outside}

Call ==
    \/ \E x \in 0..width, y \in 0..height :
           \E cell \in CallerCells(x, y) : SetCellOp(x, y, cell)
    \/ \E c1 \in DOMAIN grid, c2 \in DOMAIN grid : RemoveWallBetweenOp(c1, c2)
    \/ \E c1 \in DOMAIN grid, c2 \in DOMAIN grid : AddWallBetweenOp(c1, c2)
    \/ ResetToFullyWalledOp
    \/ ResetVisitedOp
    \/ \E startX \in -1..width, startY \in -1..height : GenerateBegin(startX, startY)
    \/ \E pair \in CallerPairs : SolveDFSOp(pair[1], pair[2])
    \/ \E pair \in CallerPairs : SolveBFSOp(pair[1], pair[2])

\* the queries: they leave the maze as it is and are not counted as calls
Query == \E c1 \in DOMAIN grid, c2 \in DOMAIN grid : GetDirectionBetweenOp(c1, c2)

\* A query changes nothing of the maze, so the calls that can follow it are the
\* calls that can follow the state it was made in: they are taken from there.
Next ==
    \/ calls < MaxCalls /\ op \notin QueryOps /\ Call /\ calls' = calls + 1 /\ UNCHANGED held
    \/ GenerateStep /\ UNCHANGED <<calls, held>>
    \/ Query /\ UNCHANGED <<calls, held>>

Spec == Init /\ [][Next]_vars


(***************************************************************************)
(* Vocabulary of the properties                                            *)
(***************************************************************************)
\* generateRecursiveBacktracking has just returned normally
Returned == pc = "idle" /\ op = "generate" /\ err = "none"

\* b is the grid neighbour of a on a side where a has no wall
OpenSide(g, a, b) ==
    \E d \in Direction : movePosition(a, d, 1) = b /\ ~g[a].walls[d]

\* every simple path from a to b through open sides that avoids the cells in seen
RECURSIVE SimplePaths(_, _, _, _)
SimplePaths(g, a, b, seen) ==
    IF a = b THEN {<<a>>}
    ELSE UNION {{<<a>> \o rest : rest \in SimplePaths(g, n, b, seen \cup {n})} :
                    n \in {m \in DOMAIN g \ seen : OpenSide(g, a, m)}}

Range(s) == {s[i] : i \in 1..Len(s)}

\* the passages of the grid: unordered pairs of cells open toward each other
Passages(g) ==
    {{f[1], f[2]} : f \in {e \in (DOMAIN g) \X (DOMAIN g) : OpenSide(g, e[1], e[2])}}

NoDuplicates(path) == \A i \in 1..Len(path), j \in 1..Len(path) : path[i] = path[j] => i = j

ValidWalk(g, path, start, end) ==
    /\ Len(path) >= 1
    /\ path[1] = start
    /\ path[Len(path)] = end
    /\ \A i \in 1..Len(path) : path[i] \in DOMAIN g
    /\ \A i \in 1..(Len(path) - 1) : OpenSide(g, path[i], path[i + 1])
    /\ NoDuplicates(path)

(***************************************************************************)
(* Generation (SpecGen, SpecGenFair)                                       *)
(***************************************************************************)
\* C1: whenever generateRecursiveBacktracking returns - whatever the walls and
\* visited flags were before, whatever the grid size, the start and the random
\* choices - every passage has two faces and there is exactly one simple path
\* through open passages between any two cells: the passage graph is a
\* spanning tree of the grid.
C1_SpanningTree ==
    Returned =>
        \A a \in DOMAIN grid, b \in DOMAIN grid :
            /\ OpenSide(grid, a, b) <=> OpenSide(grid, b, a)
            /\ Cardinality(SimplePaths(grid, a, b, {a})) = 1

\* a returned generation on a 3x2 grid whose tree branches (a cell with three passages)
C1_Witness ==
    /\ Returned
    /\ width = 3 /\ height = 2
    /\ \E a \in DOMAIN grid : Cardinality({b \in DOMAIN grid : OpenSide(grid, a, b)}) = 3

\* C2 as stated: after generation the removedWalls value of getStatistics
\* equals totalCells - 1.
C2_RemovedWallsIsCellsMinusOne ==
    Returned => getStatistics(grid).removedWalls = totalCells - 1

\* C2 amended: after generation there are exactly totalCells - 1 passages, and
\* the removedWalls value of getStatistics, which counts a passage once for each
\* of its two faces, equals 2 * (totalCells - 1).
C2_RemovedWallsIsTwicePassages ==
    Returned =>
        /\ Cardinality(Passages(grid)) = totalCells - 1
        /\ getStatistics(grid).removedWalls = 2 * (totalCells - 1)

\* a returned generation on a grid of six cells: five passages, removedWalls = 10
C2_Witness == Returned /\ totalCells = 6 /\ getStatistics(grid).removedWalls = 10

\* C3: whenever generateRecursiveBacktracking returns, every cell has
\* visited = true, and getStatistics reports visitedCells = totalCells and
\* unvisitedCells = 0.
C3_AllVisited ==
    Returned =>
        /\ \A p \in DOMAIN grid : grid[p].visited
        /\ getStatistics(grid).visitedCells = totalCells
        /\ getStatistics(grid).unvisitedCells = 0

\* a returned generation on a 2x3 grid that started in the middle of the left column
C3_Witness ==
    /\ Returned
    /\ width = 2 /\ height = 3
    /\ Cardinality({b \in DOMAIN grid : OpenSide(grid, createPosition(0, 1), b)}) >= 2
    /\ getStatistics(grid).visitedCells = 6

\* C4: generateRecursiveBacktracking terminates - once its loop runs, its stack
\* eventually becomes empty and the call returns - and during the run no cell is
\* pushed twice or popped more often than pushed, so that at the return every
\* cell was pushed exactly once and popped exactly once.
C4_TerminatesPushPopOnce ==
    /\ [](pc = "generating" => <>(pc = "idle" /\ stack = <<>>))
    /\ [](\A p \in DOMAIN grid : pushCount[p] <= 1 /\ popCount[p] <= pushCount[p])
    /\ [](Returned => \A p \in DOMAIN grid : pushCount[p] = 1 /\ popCount[p] = 1)

\* a generation of a six-cell grid has returned with every cell pushed and popped
C4_Witness ==
    /\ Returned
    /\ totalCells = 6
    /\ stack = <<>>
    /\ \A p \in DOMAIN grid : pushCount[p] = 1 /\ popCount[p] = 1

\* C6: on a freshly generated maze, for every in-bounds start and end, solveDFS
\* and solveBFS both return a path, and the two paths are the same sequence of
\* positions (comparePaths says so).
C6_SamePath ==
    op = "analyzePair" =>
        /\ dfsResult.kind = "path"
        /\ bfsResult.kind = "path"
        /\ comparePaths(dfsResult.path, bfsResult.path)
        /\ dfsResult.path = bfsResult.path

\* an analysed pair whose path has four cells and where DFS first ran into a dead end
C6_Witness ==
    /\ op = "analyzePair"
    /\ dfsResult.kind = "path"
    /\ Len(dfsResult.path) = 4
    /\ Cardinality(dfsVisited) > 4

\* C7 as stated: on a freshly generated maze the cells visited after solveDFS
\* are the cells visited after solveBFS.
C7_SameVisitedSet == op = "analyzePair" => dfsVisited = bfsVisited

\* C7 amended: on a freshly generated maze, for every in-bounds start and end,
\* the cells visited after solveDFS and the cells visited after solveBFS both
\* include every cell of the returned path, and both are exactly {start} when
\* start = end; the two sets need not be identical.
C7_PathInBothVisitedSets ==
    op = "analyzePair" =>
        /\ Range(dfsResult.path) \subseteq dfsVisited
        /\ Range(bfsResult.path) \subseteq bfsVisited
        /\ Range(dfsResult.path) \subseteq bfsVisited
        /\ args.start = args.end => dfsVisited = {args.start} /\ bfsVisited = {args.start}

\* an analysed pair where DFS visited the whole 2x3 maze and BFS only four cells
C7_Witness ==
    /\ op = "analyzePair"
    /\ width = 2 /\ height = 3
    /\ Cardinality(dfsVisited) = 6
    /\ Cardinality(bfsVisited) = 4

(***************************************************************************)
(* Solving on arbitrary walls (SpecSolve)                                  *)
(***************************************************************************)
\* C5: on an arbitrary wall configuration, a path returned by solveBFS is no
\* longer than any path from start to end through open sides, and so no longer
\* than the path solveDFS returns for the same start and end.
C5_BFSShortest ==
    bfsResult.kind = "path" =>
        /\ \A other \in SimplePaths(grid, args.start, args.end, {args.start}) :
               Len(bfsResult.path) <= Len(other)
        /\ dfsResult.kind = "path" => Len(bfsResult.path) <= Len(dfsResult.path)

\* the solvers compared on a maze with a cycle, where BFS is strictly shorter than DFS
C5_Witness ==
    /\ op = "compareSolvers"
    /\ dfsResult.kind = "path"
    /\ bfsResult.kind = "path"
    /\ Len(bfsResult.path) < Len(dfsResult.path)

\* C10: on any wall configuration, every path solveDFS or solveBFS returns
\* starts at start, ends at end, stays in bounds, moves at each step to a grid
\* neighbour on a side where the earlier cell is open, and repeats no position.
C10_ValidWalk ==
    /\ dfsResult.kind = "path" => ValidWalk(grid, dfsResult.path, args.start, args.end)
    /\ bfsResult.kind = "path" => ValidWalk(grid, bfsResult.path, args.start, args.end)

\* both solvers returned a path, DFS one of four cells through a one-sided
\* passage, BFS the direct one of two cells
C10_Witness ==
    /\ op = "compareSolvers"
    /\ dfsResult.kind = "path"
    /\ bfsResult.kind = "path"
    /\ Len(dfsResult.path) = 4
    /\ Len(bfsResult.path) = 2
    /\ \E i \in 1..(Len(dfsResult.path) - 1) :
           ~OpenSide(grid, dfsResult.path[i + 1], dfsResult.path[i])

(***************************************************************************)
(* The public interface (Spec)                                             *)
(***************************************************************************)
\* C8: in every state reachable through the public operations, for all
\* adjacent cells a and b of the grid, hasPassageBetween(a, b) equals
\* hasPassageBetween(b, a).
C8_PassageSymmetry ==
    \A a \in DOMAIN grid, b \in DOMAIN grid :
        areNeighbors(grid[a], grid[b]) =>
            hasPassageBetween(grid, a, b) = hasPassageBetween(grid, b, a)

\* C9: after any sequence of operations, successful or failing, the cell stored
\* at every in-bounds (x, y) has position (x, y), and the grid has exactly the
\* slots of width x height.
C9_CellPosition ==
    /\ DOMAIN grid = Slots(width, height)
    /\ \A x \in 0..(width - 1), y \in 0..(height - 1) :
           /\ grid[createPosition(x, y)].position.x = x
           /\ grid[createPosition(x, y)].position.y = y

\* a second call, a setCell that replaced a cell, after a first call that located cells
C9_Witness ==
    /\ op = "setCell"
    /\ err = "none"
    /\ calls = 2
    /\ \E p \in DOMAIN grid, q \in DOMAIN grid :
           grid[p].walls = createOpenWalls /\ grid[q].walls = createClosedWalls

(***************************************************************************)
(* Solving: absent results and special mazes                               *)
(***************************************************************************)
\* the cells reachable from the cells of seen by moving through open sides
RECURSIVE ReachableFrom(_, _)
ReachableFrom(g, seen) ==
    LET more == {b \in DOMAIN g \ seen : \E a \in seen : OpenSide(g, a, b)}
    IN  IF more = {} THEN seen ELSE ReachableFrom(g, seen \cup more)

\* C11: on any wall configuration, cycles included, and for every in-bounds
\* start and end, solveDFS and solveBFS each terminate without an error and
\* return null exactly when end is not reachable from start through open
\* sides; when end is reachable each returns a path.
C11_AbsentIffUnreachable ==
    op = "compareSolvers" =>
        LET reachable == args.end \in ReachableFrom(grid, {args.start})
        IN  /\ err = "none"
            /\ dfsResult.kind = (IF reachable THEN "path" ELSE "null")
            /\ bfsResult.kind = (IF reachable THEN "path" ELSE "null")

\* both solvers returned null after searching a part of the maze that holds a
\* cycle of four cells, the end lying outside that part
C11_Witness ==
    /\ op = "compareSolvers"
    /\ dfsResult = NullResult
    /\ bfsResult = NullResult
    /\ Cardinality(ReachableFrom(grid, {args.start})) >= 4
    /\ \E a \in DOMAIN grid :
           LET b == movePosition(a, Right, 1)
               c == movePosition(b, Down, 1)
               d == movePosition(a, Down, 1)
           IN  /\ {b, c, d} \subseteq ReachableFrom(grid, {args.start})
               /\ OpenSide(grid, a, b) /\ OpenSide(grid, b, c)
               /\ OpenSide(grid, c, d) /\ OpenSide(grid, d, a)

\* every cell of the grid has all four walls / no wall, as the constructor leaves them
AllWalled == \A p \in DOMAIN grid : grid[p].walls = createClosedWalls

AllOpen == \A p \in DOMAIN grid : grid[p].walls = createOpenWalls

\* C12: on a maze built with Maze.createOpen(w, h), solveBFS between any two
\* in-bounds points returns a path of exactly |dx| + |dy| + 1 positions.
C12_OpenMazeManhattan ==
    (op \in {"solveBFS", "compareSolvers"} /\ AllOpen) =>
        /\ bfsResult.kind = "path"
        /\ Len(bfsResult.path) =
               Abs(args.end.x - args.start.x) + Abs(args.end.y - args.start.y) + 1

\* solveBFS on the 3x3 open maze from (0,0) to (2,2) returned 5 positions
C12_Witness ==
    /\ op = "solveBFS"
    /\ AllOpen
    /\ width = 3 /\ height = 3
    /\ args = [start |-> createPosition(0, 0), end |-> createPosition(2, 2)]
    /\ bfsResult.kind = "path"
    /\ Len(bfsResult.path) = 5

\* C13: on a Maze constructed with all walls present and width, height >= 2,
\* solveDFS and solveBFS between any two distinct in-bounds cells both return null.
C13_WalledMazeNoPath ==
    (AllWalled /\ width >= 2 /\ height >= 2 /\ op # "construct" /\ args.start # args.end) =>
        /\ op \in {"solveDFS", "compareSolvers"} => dfsResult = NullResult
        /\ op \in {"solveBFS", "compareSolvers"} => bfsResult = NullResult

\* both solvers returned null between two neighbouring cells of a walled 3x3 maze
C13_Witness ==
    /\ op = "compareSolvers"
    /\ AllWalled
    /\ width = 3 /\ height = 3
    /\ manhattanDistanceTo([position |-> args.start], args.end) = 1
    /\ dfsResult = NullResult
    /\ bfsResult = NullResult

\* C14: for every wall configuration and every in-bounds position p,
\* solveDFS(p, p) and solveBFS(p, p) both return the single-element path [p];
\* in particular on a 1x1 maze both return [(0,0)].
C14_StartIsEnd ==
    (op = "compareSolvers" /\ args.start = args.end) =>
        /\ dfsResult = PathResult(<<args.start>>)
        /\ bfsResult = PathResult(<<args.start>>)

\* both solvers returned [(0,0)] on a 1x1 maze
C14_Witness ==
    /\ op = "compareSolvers"
    /\ width = 1 /\ height = 1
    /\ dfsResult = PathResult(<<createPosition(0, 0)>>)
    /\ bfsResult = PathResult(<<createPosition(0, 0)>>)

(***************************************************************************)
(* Solving through the public interface (Spec)                             *)
(***************************************************************************)
\* C15: solveDFS and solveBFS called with a start or an end outside
\* [0,width) x [0,height) fail with an InvalidPosition error before any search
\* work begins: the failed call changes no cell's visited flag and no wall.
C15_InvalidPositionNoWork ==
    [][(/\ calls' = calls + 1
        /\ op' \in {"solveDFS", "solveBFS"}
        /\ ~isValidPositionObject(args'.start) \/ ~isValidPositionObject(args'.end))
           => (/\ err' = "InvalidPosition"
               /\ grid' = grid
               /\ op' = "solveDFS" => dfsResult' = ErrorResult
               /\ op' = "solveBFS" => bfsResult' = ErrorResult)]_vars

\* a second call, solveDFS with an end outside the grid, failed on a maze
\* whose cells carry visited flags from the first call
C15_Witness ==
    /\ op = "solveDFS"
    /\ err = "InvalidPosition"
    /\ isValidPositionObject(args.start)
    /\ ~isValidPositionObject(args.end)
    /\ calls = 2
    /\ \E p \in DOMAIN grid : grid[p].visited

\* the grid with the same walls and every visited flag cleared
Unvisited(g) == [p \in DOMAIN g |-> [g[p] EXCEPT !.visited = FALSE]]

\* C16: the result of solveDFS(start, end) and of solveBFS(start, end) depends
\* only on the walls and on start and end, not on the visited flags before the
\* call: whatever flags generation, the other solver or resetVisited left, each
\* solver returns the path, and leaves the visited flags, that it returns and
\* leaves when run on the same walls with every flag cleared.
C16_VisitedFlagsIgnored ==
    /\ (op = "solveDFS" /\ err = "none") =>
           LET clean == solveDFS(Unvisited(grid), args.start, args.end)
           IN  dfsResult = clean.result /\ grid = clean.grid
    /\ (op = "solveBFS" /\ err = "none") =>
           LET clean == solveBFS(Unvisited(grid), args.start, args.end)
           IN  bfsResult = clean.result /\ grid = clean.grid

\* solveBFS returned a path on a maze that generation had just left with every
\* cell visited, and left some cell unvisited
C16_Witness ==
    /\ op = "solveBFS"
    /\ err = "none"
    /\ fresh
    /\ calls = 2
    /\ bfsResult.kind = "path"
    /\ Len(bfsResult.path) >= 2
    /\ \E p \in DOMAIN grid : ~grid[p].visited

(***************************************************************************)
(* Walls and cells through the public interface (Spec)                     *)
(***************************************************************************)
WallOps == {"removeWallBetween", "addWallBetween"}

\* the side of cell a that faces its grid neighbour b
Facing(a, b) == CHOOSE d \in Direction : movePosition(a, d, 1) = b

GridAdjacent(a, b) == Abs(a.x - b.x) + Abs(a.y - b.y) = 1

\* C17: for grid-adjacent cells a and b, removeWallBetween(a, b) clears, and
\* addWallBetween(a, b) sets, exactly two wall flags: a's wall on the side
\* facing b and b's wall on the side facing a; the other three walls of a and
\* of b, the walls of every other cell, and all visited flags are unchanged.
C17_WallFrame ==
    [][(/\ calls' = calls + 1
        /\ op' \in WallOps
        /\ GridAdjacent(args'.start, args'.end))
           => LET a == args'.start
                  b == args'.end
              IN  /\ err' = "none"
                  /\ DOMAIN grid' = DOMAIN grid
                  /\ \A p \in DOMAIN grid :
                         /\ grid'[p].visited = grid[p].visited
                         /\ grid'[p].position = grid[p].position
                         /\ \A d \in Direction :
                                grid'[p].walls[d] =
                                    IF (p = a /\ d = Facing(a, b)) \/ (p = b /\ d = Facing(b, a))
                                    THEN op' = "addWallBetween"
                                    ELSE grid[p].walls[d]]_vars

\* addWallBetween has set the two facing walls, the only walls of the maze,
\* while cells carry the visited flags of an earlier solve
C17_Witness ==
    /\ op = "addWallBetween"
    /\ err = "none"
    /\ calls = 2
    /\ \E p \in DOMAIN grid : grid[p].visited
    /\ grid[args.start].walls[Facing(args.start, args.end)]
    /\ grid[args.end].walls[Facing(args.end, args.start)]
    /\ \A p \in DOMAIN grid, d \in Direction :
           grid[p].walls[d] =>
               (p = args.start /\ d = Facing(args.start, args.end))
                   \/ (p = args.end /\ d = Facing(args.end, args.start))

\* C18: removeWallBetween, addWallBetween and getDirectionBetween called with
\* two cells that are not at Manhattan distance 1 (the same cell twice and
\* diagonal neighbours included) fail with a NotNeighbors error, and the failed
\* call changes no wall of either cell.
C18_NotNeighbors ==
    [][(/\ op' \in WallOps \cup {"getDirectionBetween"}
        /\ ~GridAdjacent(args'.start, args'.end))
           => (err' = "NotNeighbors" /\ ret' = "none" /\ grid' = grid)]_vars

\* addWallBetween on two diagonal neighbours of an open maze failed
C18_Witness ==
    /\ op = "addWallBetween"
    /\ err = "NotNeighbors"
    /\ Abs(args.start.x - args.end.x) = 1
    /\ Abs(args.start.y - args.end.y) = 1
    /\ AllOpen

\* C19: wall removal and addition are idempotent and never fail on an
\* already-absent or already-present wall: for adjacent cells a, b,
\* removeWallBetween(a, b) called again right after it leaves the state as it
\* was, likewise addWallBetween; and addWallBetween(a, b) right after
\* removeWallBetween(a, b) restores both facing walls.
C19_Idempotent ==
    [][(/\ calls' = calls + 1
        /\ op \in WallOps
        /\ err = "none"
        /\ op' \in WallOps
        /\ args' = args)
           => (/\ err' = "none"
               /\ op' = op => grid' = grid
               /\ (op = "removeWallBetween" /\ op' = "addWallBetween") =>
                      /\ grid'[args.start].walls[Facing(args.start, args.end)]
                      /\ grid'[args.end].walls[Facing(args.end, args.start)])]_vars

\* a second call, removeWallBetween, returned on a maze whose only open faces
\* are the two between its cells: the first call may have removed them already
C19_Witness ==
    /\ op = "removeWallBetween"
    /\ err = "none"
    /\ calls = 2
    /\ \A p \in DOMAIN grid, d \in Direction :
           ~grid[p].walls[d] <=>
               (p = args.start /\ d = Facing(args.start, args.end))
                   \/ (p = args.end /\ d = Facing(args.end, args.start))

\* C20: setCell(x, y, cell) fails when (x, y) is out of bounds and fails when
\* cell.position is not (x, y), leaving the grid unchanged in both cases;
\* otherwise the slot (x, y), and only that slot, now holds the supplied cell.
C20_SetCell ==
    [][(calls' = calls + 1 /\ op' = "setCell")
           => LET x == args'.x
                  y == args'.y
                  cell == args'.cell
              IN  IF ~(x \in 0..(width - 1) /\ y \in 0..(height - 1))
                  THEN err' # "none" /\ grid' = grid
                  ELSE IF cell.position # createPosition(x, y)
                       THEN err' # "none" /\ grid' = grid
                       ELSE /\ err' = "none"
                            /\ DOMAIN grid' = DOMAIN grid
                            /\ grid'[createPosition(x, y)] = cell
                            /\ \A p \in DOMAIN grid \ {createPosition(x, y)} :
                                   grid'[p] = grid[p]]_vars

\* setCell stored a walled cell at a slot other than (0,0) of an open maze
C20_Witness ==
    /\ op = "setCell"
    /\ err = "none"
    /\ createPosition(args.x, args.y) # createPosition(0, 0)
    /\ grid[createPosition(args.x, args.y)] = args.cell
    /\ args.cell.walls = createClosedWalls
    /\ \A p \in DOMAIN grid \ {createPosition(args.x, args.y)} :
           grid[p].walls = createOpenWalls

(***************************************************************************)
(* Queries (SpecEdit)                                                      *)
(***************************************************************************)
InBounds(x, y) == x \in 0..(width - 1) /\ y \in 0..(height - 1)

\* C21: on any maze, getCell(x, y) fails with an OutOfBounds error for every
\* (x, y) outside [0,width) x [0,height), whereas getCellSafe(x, y) returns
\* the absent result for exactly those coordinates and the same cell as
\* getCell for in-bounds ones; neither changes the maze.
C21_GetCell ==
    [][/\ op' = "getCell" =>
              /\ grid' = grid /\ width' = width /\ height' = height
              /\ IF InBounds(args'.x, args'.y)
                 THEN err' = "none" /\ ret' = createPosition(args'.x, args'.y)
                 ELSE err' = "OutOfBounds"
       /\ op' = "getCellSafe" =>
              /\ grid' = grid /\ width' = width /\ height' = height
              /\ err' = "none"
              /\ ret' = IF InBounds(args'.x, args'.y)
                        THEN createPosition(args'.x, args'.y)
                        ELSE NoCell]_vars

\* getCell(width, 0) failed with OutOfBounds on a maze with a replaced cell
C21_Witness ==
    /\ op = "getCell"
    /\ args = [x |-> width, y |-> 0]
    /\ err = "OutOfBounds"
    /\ \E p \in DOMAIN grid : grid[p].walls \notin {createClosedWalls, createOpenWalls}

\* C22: getStatistics on any maze returns totalCells == width*height,
\* visitedCells + unvisitedCells == totalCells, totalWalls + removedWalls ==
\* 4*totalCells, connectivity == removedWalls / (4*totalCells), and
\* 0 <= removedWalls <= 4*totalCells.
C22_Statistics ==
    op = "getStatistics" =>
        /\ ret.totalCells = width * height
        /\ ret.visitedCells + ret.unvisitedCells = ret.totalCells
        /\ ret.totalWalls + ret.removedWalls = 4 * ret.totalCells
        /\ ret.connectivityNum = ret.removedWalls
        /\ ret.connectivityDen = 4 * ret.totalCells
        /\ ret.removedWalls >= 0
        /\ ret.removedWalls <= 4 * ret.totalCells

\* statistics of a maze with visited and unvisited cells, where one cell has
\* lost several walls and other walls stand
C22_Witness ==
    /\ op = "getStatistics"
    /\ ret.visitedCells > 0 /\ ret.unvisitedCells > 0
    /\ ret.totalWalls > 0
    /\ \E p \in DOMAIN grid : getWallCount(grid[p]) \in {1, 2}

\* C25: getNeighbors(c) returns exactly the in-bounds cells at Manhattan
\* distance 1 from c, in the order Up, Down, Left, Right, independent of
\* walls (2 for a corner, 3 for an edge cell, 4 for an interior cell when
\* width, height >= 2); getAccessibleNeighbors(c) returns exactly those of
\* them on a side where c itself has no wall.
C25_Neighbors ==
    /\ op = "getNeighbors" =>
           LET c == args.cell
               around == <<[x |-> c.x, y |-> c.y - 1], [x |-> c.x, y |-> c.y + 1],
                           [x |-> c.x - 1, y |-> c.y], [x |-> c.x + 1, y |-> c.y]>>
               onSideX == IF c.x \in {0, width - 1} THEN 1 ELSE 0
               onSideY == IF c.y \in {0, height - 1} THEN 1 ELSE 0
           IN  /\ ret = SelectSeq(around, LAMBDA p : InBounds(p.x, p.y))
               /\ Range(ret) = {b \in DOMAIN grid : GridAdjacent(c, b)}
               /\ (width >= 2 /\ height >= 2) => Len(ret) = 4 - onSideX - onSideY
    /\ op = "getAccessibleNeighbors" =>
           LET c == args.cell
           IN  /\ Range(ret) = {b \in DOMAIN grid :
                                   GridAdjacent(c, b) /\ ~grid[c].walls[Facing(c, b)]}
               /\ NoDuplicates(ret)

\* the four neighbours of an interior cell that has walls on two sides
C25_Witness ==
    /\ op = "getNeighbors"
    /\ Len(ret) = 4
    /\ getWallCount(grid[args.cell]) = 2

OppositeOf(d) ==
    CASE d = Up -> Down [] d = Down -> Up [] d = Left -> Right [] d = Right -> Left

\* C26: for grid-adjacent cells a and b, getDirectionBetween(a, b) returns
\* the direction d with a.getNeighborPosition(d) == b.position, and
\* getDirectionBetween(b, a) returns the opposite direction.
C26_DirectionBetween ==
    (op = "getDirectionBetween" /\ GridAdjacent(args.start, args.end)) =>
        /\ err = "none"
        /\ ret \in Direction
        /\ getNeighborPosition(grid[args.start], ret) = grid[args.end].position
        /\ getDirectionBetween(grid[args.end], grid[args.start]) = OppositeOf(ret)

\* the direction from a cell to the cell below it was asked for
C26_Witness ==
    /\ op = "getDirectionBetween"
    /\ args.end = [x |-> args.start.x, y |-> args.start.y + 1]
    /\ ret = Down

\* C27: hasPassageBetween(c1, c2) returns false, without failing, whenever
\* c1 and c2 are not at Manhattan distance 1; for adjacent cells it returns
\* true iff c1 has no wall on the side facing c2.
C27_HasPassage ==
    op = "hasPassageBetween" =>
        /\ err = "none"
        /\ ret = (/\ GridAdjacent(args.start, args.end)
                  /\ ~grid[args.start].walls[Facing(args.start, args.end)])

\* a passage was reported from a cell into a neighbour that is walled toward it
C27_Witness ==
    /\ op = "hasPassageBetween"
    /\ ret = TRUE
    /\ grid[args.end].walls[Facing(args.end, args.start)]

\* the reference depth-first search: at each cell the directions are tried in
\* the order Up, Down, Left, Right, a neighbour is entered when it is in the
\* grid, the current cell has no wall toward it and it was not entered before
RECURSIVE ReferenceDFS(_, _, _, _)
RECURSIVE ReferenceTry(_, _, _, _, _)
ReferenceDFS(g, current, target, seen) ==
    IF current = target
    THEN [found |-> TRUE, path |-> <<current>>, seen |-> seen \cup {current}]
    ELSE ReferenceTry(g, current, target, seen \cup {current}, 1)

ReferenceTry(g, current, target, seen, i) ==
    IF i > Len(ALL_DIRECTIONS) THEN [found |-> FALSE, path |-> <<>>, seen |-> seen]
    ELSE LET n == movePosition(current, ALL_DIRECTIONS[i], 1)
         IN  IF n \in DOMAIN g /\ ~g[current].walls[ALL_DIRECTIONS[i]] /\ n \notin seen
             THEN LET r == ReferenceDFS(g, n, target, seen)
                  IN  IF r.found
                      THEN [found |-> TRUE, path |-> <<current>> \o r.path, seen |-> r.seen]
                      ELSE ReferenceTry(g, current, target, r.seen, i + 1)
             ELSE ReferenceTry(g, current, target, seen, i + 1)

\* C24: solveDFS equals a reference depth-first search that, at each cell,
\* tries the accessible unvisited neighbours in the fixed order Up, Down,
\* Left, Right and stops at the first success: for every wall configuration
\* reachable through Maze operations and every in-bounds start and end,
\* solveDFS returns exactly that reference path (or absent).
C24_DFSReferenceOrder ==
    op = "compareSolvers" =>
        \E r \in {ReferenceDFS(grid, args.start, args.end, {})} :
            dfsResult = IF r.found THEN PathResult(r.path) ELSE NullResult

(***************************************************************************)
(* Frames and errors of the solvers (Spec)                                 *)
(***************************************************************************)
\* C23: solveDFS, solveBFS, resetVisited and Cell.reset never change any
\* wall: the wall flags of every cell, and therefore totalWalls, removedWalls
\* and connectivity from getStatistics, are the same before and after any of
\* these calls, whether the solve succeeds, returns absent or fails.
C23_WallsUntouched ==
    [][op' \in {"solveDFS", "solveBFS", "resetVisited"} =>
           /\ DOMAIN grid' = DOMAIN grid
           /\ \A p \in DOMAIN grid : grid'[p].walls = grid[p].walls
           /\ \E before \in {getStatistics(grid)}, after \in {getStatistics(grid')} :
                  /\ after.totalWalls = before.totalWalls
                  /\ after.removedWalls = before.removedWalls
                  /\ after.connectivityNum = before.connectivityNum
                  /\ after.connectivityDen = before.connectivityDen]_vars

\* a solve found a path of several cells through a maze in which a wall was
\* removed before and other walls stand
C23_Witness ==
    /\ op = "solveDFS"
    /\ dfsResult.kind = "path"
    /\ Len(dfsResult.path) >= 2
    /\ \E p \in DOMAIN grid : getWallCount(grid[p]) = 3

\* C30: for every in-bounds start and every sequence of random choices,
\* generateRecursiveBacktracking raises no error (removeWallBetween is only
\* ever called on grid-adjacent cells, so NotNeighbors never occurs);
\* likewise solveDFS and solveBFS with in-bounds start and end raise no error
\* on any wall configuration, including cells that are open toward the
\* outside of the grid.
C30_NoError ==
    [][/\ (op' = "generateBegin" \/ pc = "generating") => err' = "none"
       /\ (/\ op' \in {"solveDFS", "solveBFS"}
           /\ InBounds(args'.start.x, args'.start.y)
           /\ InBounds(args'.end.x, args'.end.y)) =>
              /\ err' = "none"
              /\ op' = "solveDFS" => dfsResult'.kind \in {"path", "null"}
              /\ op' = "solveBFS" => bfsResult'.kind \in {"path", "null"}]_vars

\* a solve returned on a maze whose border cells are all open toward the outside
C30_Witness ==
    /\ op = "solveBFS"
    /\ err = "none"
    /\ AllOpen
    /\ Len(bfsResult.path) >= 3

(***************************************************************************)
(* The visited flags a solver leaves (SpecSolve)                           *)
(***************************************************************************)
TouchedBySearch(result, visited, reachable) ==
    /\ args.start \in visited
    /\ result.kind = "path" => Range(result.path) \subseteq visited
    /\ visited \subseteq reachable
    /\ result.kind = "null" => visited = reachable

\* C29: when solveDFS or solveBFS returns (path or absent), the cells with
\* visited == true are exactly cells the search touched: start is visited,
\* every position on a returned path is visited, every visited cell is
\* reachable from start through open sides, and when the result is absent
\* the visited set is exactly the set of cells reachable from start.
C29_VisitedIsTouched ==
    op = "compareSolvers" =>
        /\ dfsResult.kind \in {"path", "null"}
        /\ bfsResult.kind \in {"path", "null"}
        /\ \E reachable \in {ReachableFrom(grid, {args.start})} :
               /\ TouchedBySearch(dfsResult, dfsVisited, reachable)
               /\ TouchedBySearch(bfsResult, bfsVisited, reachable)

\* solveDFS returned a path after entering a cell that is not on it, and left
\* a reachable cell unvisited
C29_Witness ==
    /\ op = "compareSolvers"
    /\ dfsResult.kind = "path"
    /\ Range(dfsResult.path) # dfsVisited
    /\ dfsVisited # ReachableFrom(grid, {args.start})
    /\ bfsVisited # dfsVisited

(***************************************************************************)
(* solveBFS while it runs (SpecBFS)                                        *)
(***************************************************************************)
\* the positions of the nodes waiting in the queue, front first
QueuedPositions == [i \in 1..Len(bfsQueue) |-> bfsNodes[bfsQueue[i]].position]

\* the positions of all nodes made so far: one per enqueue of this run
EnqueuedPositions == [i \in 1..Len(bfsNodes) |-> bfsNodes[i].position]

\* C28: during any run of solveBFS each cell has at most one queue entry: a
\* cell is marked visited at the moment it is enqueued, no position is ever
\* in the queue twice, and the total number of enqueues in one run is at
\* most width*height.
C28_OneQueueEntry ==
    (pc = "solvingBFS" \/ (op = "solveBFS" /\ bfsNodes # <<>>)) =>
        /\ \A i \in 1..Len(bfsQueue) : grid[QueuedPositions[i]].visited
        /\ VisitedSet(grid) = Range(EnqueuedPositions)
        /\ NoDuplicates(QueuedPositions)
        /\ NoDuplicates(EnqueuedPositions)
        /\ Len(bfsNodes) <= width * height

\* the search is running on four cells that form a cycle: the last cell was
\* reached from one side and waits in the queue, the cell on its other side
\* has been expanded and found it visited
C28_Witness ==
    /\ pc = "solvingBFS"
    /\ Len(bfsNodes) = 4
    /\ Len(bfsQueue) = 1
    /\ \E c \in DOMAIN grid :
           /\ c # bfsNodes[bfsNodes[bfsQueue[1]].parent].position
           /\ c # QueuedPositions[1]
           /\ OpenSide(grid, c, QueuedPositions[1])
           /\ grid[c].visited

(***************************************************************************)
(* generateRecursiveBacktracking while it runs (SpecGen)                   *)
(***************************************************************************)
\* the faces (cell, direction) whose wall flag differs between two grids
ChangedFaces(g, h) == {f \in (DOMAIN g) \X Direction : g[f[1]].walls[f[2]] # h[f[1]].walls[f[2]]}

\* the passages of g form a tree over its visited cells: one fewer than the
\* cells, each between two visited cells and open on both faces, and every
\* visited cell can be reached from every other
CarvedTree(g) ==
    LET visited == VisitedSet(g)
    IN  /\ Cardinality(Passages(g)) = Cardinality(visited) - 1
        /\ \A a \in DOMAIN g, b \in DOMAIN g :
               OpenSide(g, a, b) => {a, b} \subseteq visited /\ OpenSide(g, b, a)
        /\ \A a \in visited : ReachableFrom(g, {a}) = visited

\* C31: at every iteration of generateRecursiveBacktracking a wall is removed
\* only between the stack-top cell and a cell that is unvisited at that
\* moment, so at every step the number of carved passages equals the number
\* of visited cells minus one and the passage graph over the visited cells
\* is a tree; at the end the number of carved passages is totalCells - 1.
C31_CarvedTree ==
    [][/\ (pc = "generating" /\ ChangedFaces(grid, grid') # {}) =>
              \E next \in DOMAIN grid :
                  LET top == stack[Len(stack)]
                  IN  /\ ~grid[next].visited
                      /\ GridAdjacent(top, next)
                      /\ ChangedFaces(grid, grid') =
                             {<<top, Facing(top, next)>>, <<next, Facing(next, top)>>}
                      /\ ~grid'[top].walls[Facing(top, next)]
                      /\ ~grid'[next].walls[Facing(next, top)]
       /\ pc' = "generating" => CarvedTree(grid')
       /\ (pc = "generating" /\ pc' = "idle") =>
              /\ CarvedTree(grid')
              /\ Cardinality(Passages(grid')) = totalCells - 1]_vars

\* the generation is under way on six cells: three are visited, two passages
\* are carved, and the stack has gone back to the start cell
C31_Witness ==
    /\ pc = "generating"
    /\ totalCells = 6
    /\ Cardinality(VisitedSet(grid)) = 3
    /\ Cardinality(Passages(grid)) = 2
    /\ Len(stack) = 1

\* C32: at every iteration of generateRecursiveBacktracking the stack holds
\* pairwise distinct visited cells that form a path in the carved maze: the
\* bottom entry is the start cell and every other entry is grid-adjacent to
\* the entry below it with an open passage between the two.
C32_StackIsPath ==
    pc = "generating" =>
        /\ stack # <<>>
        /\ NoDuplicates(stack)
        /\ \A i \in 1..Len(stack) : stack[i] \in DOMAIN grid /\ grid[stack[i]].visited
        /\ stack[1] = createPosition(args.x, args.y)
        /\ \A i \in 2..Len(stack) :
               /\ GridAdjacent(stack[i - 1], stack[i])
               /\ OpenSide(grid, stack[i - 1], stack[i])
               /\ OpenSide(grid, stack[i], stack[i - 1])

\* the stack holds three cells after the search has gone back from a fourth
C32_Witness ==
    /\ pc = "generating"
    /\ Len(stack) = 3
    /\ Cardinality(VisitedSet(grid)) = 4
    /\ stack[1] # createPosition(0, 0)

\* C33: after generateRecursiveBacktracking, every cell on the edge of the
\* grid still has its wall on each side that faces outside the grid, and the
\* wall state is symmetric for every adjacent pair: generation only ever
\* removes walls between two in-grid cells, always on both faces.
C33_OuterWallsStand ==
    (pc = "generating" \/ Returned) =>
        /\ \A p \in DOMAIN grid, d \in Direction :
               movePosition(p, d, 1) \notin DOMAIN grid => grid[p].walls[d]
        /\ \A a \in DOMAIN grid, b \in DOMAIN grid :
               GridAdjacent(a, b) =>
                   grid[a].walls[Facing(a, b)] = grid[b].walls[Facing(b, a)]

\* a generation returned on a 2x3 grid where the middle cell of the left
\* column has lost its three inner walls and kept the outer one
C33_Witness ==
    /\ Returned
    /\ width = 2 /\ height = 3
    /\ getWalledDirections(grid[createPosition(0, 1)]) = <<Left>>

\* C34: generateRecursiveBacktracking called with (startX, startY) outside
\* the grid fails with an OutOfBounds error, and the failure is raised after
\* the reset step: at that point every cell has all four walls and visited
\* == false, whatever the wall configuration was before the call (a
\* previously generated maze is lost).
C34_FailsAfterReset ==
    [][(pc = "idle" /\ op' \in {"generate", "generateBegin"}) =>
           IF InBounds(args'.x, args'.y)
           THEN err' = "none" /\ pc' = "generating"
           ELSE /\ err' = "OutOfBounds"
                /\ pc' = "idle"
                /\ DOMAIN grid' = DOMAIN grid
                /\ \A p \in DOMAIN grid :
                       /\ grid'[p].walls = createClosedWalls
                       /\ ~grid'[p].visited
                       /\ grid'[p].position = p]_vars

\* a generation was made, then a call with a start outside the grid failed:
\* the maze is fully walled again
C34_Witness ==
    /\ op = "generate"
    /\ err = "OutOfBounds"
    /\ calls = 2
    /\ totalCells = 4
    /\ \A p \in DOMAIN grid : pushCount[p] = 1
    /\ AllWalled

\* C36: for every pair of positions, canMoveBetween(from, to) returns a
\* boolean: true if from and to are adjacent and the cell at from has no wall
\* toward to, and false otherwise (including when the positions are not
\* adjacent or one of them lies outside the grid).
C36_CanMoveReturnsBoolean ==
    op = "canMoveBetween" =>
        /\ err = "none"
        /\ ret = (/\ InBounds(args.start.x, args.start.y)
                  /\ InBounds(args.end.x, args.end.y)
                  /\ GridAdjacent(args.start, args.end)
                  /\ ~grid[args.start].walls[Facing(args.start, args.end)])

\* the number of open sides to cross from a cell of frontier to p, counted
\* from d; -1 when p cannot be reached
RECURSIVE DistanceFrom(_, _, _, _, _)
DistanceFrom(g, seen, frontier, p, d) ==
    IF p \in frontier THEN d
    ELSE LET next == {b \in DOMAIN g \ seen : \E a \in frontier : OpenSide(g, a, b)}
         IN  IF next = {} THEN -1
             ELSE DistanceFrom(g, seen \cup next, next, p, d + 1)

EdgeDistance(g, start, p) == DistanceFrom(g, {start}, {start}, p, 0)

\* C37: during solveBFS nodes leave the queue in FIFO order, so the
\* edge-distance from start of successively dequeued positions never
\* decreases, and for every node ever enqueued its parent chain is a
\* shortest path through open sides from start to that node's position.
C37_FifoShortest ==
    [][(pc = "solvingBFS" /\ bfsQueue # <<>>) =>
           \E left \in Range(bfsQueue) :
               /\ \A i \in Range(bfsQueue) : left <= i
               /\ left \notin Range(bfsQueue')
               /\ \A i \in Range(bfsQueue') :
                      EdgeDistance(grid, args.start, bfsNodes'[i].position)
                          >= EdgeDistance(grid, args.start, bfsNodes[left].position)
               /\ \A i \in 1..Len(bfsNodes') :
                      \E chain \in {reconstructPath(bfsNodes', i, <<>>)} :
                          /\ ValidWalk(grid, chain, args.start, bfsNodes'[i].position)
                          /\ Len(chain) =
                                 EdgeDistance(grid, args.start, bfsNodes'[i].position) + 1]_vars

\* on a cycle of four cells the search has taken out the start and one of
\* its neighbours; the other neighbour and the far cell wait in the queue
C37_Witness ==
    /\ pc = "solvingBFS"
    /\ Len(bfsNodes) = 4
    /\ Len(bfsQueue) = 2
    /\ EdgeDistance(grid, args.start, QueuedPositions[1]) = 1
    /\ EdgeDistance(grid, args.start, QueuedPositions[2]) = 2
    /\ OpenSide(grid, QueuedPositions[1], QueuedPositions[2])

(***************************************************************************)
(* A cell kept across a reset (SpecStale)                                  *)
(***************************************************************************)
VisitedFlags(g) == [p \in DOMAIN g |-> g[p].visited]

\* C35: resetToFullyWalled (and so generateRecursiveBacktracking) replaces
\* every cell object by a new one at the same coordinate: a cell reference
\* obtained from getCell before the reset is no longer the grid's cell, so a
\* later removeWallBetween/addWallBetween or visited write made through that
\* stale reference does not change what getCell at that coordinate reports,
\* and removeWallBetween(stale, currentNeighbour) changes only the current
\* neighbour's face in the grid.
C35_StaleCell ==
    [][/\ (held.live /\ op' \in {"resetToFullyWalled", "generateBegin"}) =>
              /\ KeptCell' = KeptCell
              /\ grid'[held.slot].walls = createClosedWalls
       /\ (held.reset /\ op' \in {"removeWallBetween", "addWallBetween", "visited"}) =>
              /\ grid'[held.slot] = grid[held.slot]
              /\ VisitedFlags(grid') = VisitedFlags(grid)
              /\ op' = "visited" => grid' = grid
              /\ (op' = "removeWallBetween" /\ GridAdjacent(held.slot, args'.other)) =>
                     /\ err' = "none"
                     /\ ChangedFaces(grid, grid') \subseteq
                            {<<args'.other, Facing(args'.other, held.slot)>>}
                     /\ ~grid'[args'.other].walls[Facing(args'.other, held.slot)]]_vars

\* after a reset, removeWallBetween(kept, neighbour) was called: the
\* neighbour in the grid is open toward the kept cell's coordinate, the cell
\* the grid holds there has all its walls, and the kept object lost a wall
C35_Witness ==
    /\ op = "removeWallBetween"
    /\ err = "none"
    /\ held.reset
    /\ args.kept = 1
    /\ GridAdjacent(held.slot, args.other)
    /\ ~grid[args.other].walls[Facing(args.other, held.slot)]
    /\ grid[held.slot].walls = createClosedWalls
    /\ ~held.cell.walls[Facing(held.slot, args.other)]
    /\ getWallCount(held.cell) = 3

====
